---- MODULE Spec2Model ----
(***************************************************************************)
(* Model of the ProphetX data explorer core:                               *)
(*   - RequestQueue (bounded-concurrency FIFO admission),                  *)
(*   - ProphetXAPI.makeRequest / refreshAccessToken / proactive refresh,   *)
(*   - ProphetXAPI.buildHierarchy (tree construction per market),          *)
(*   - SelectionCache (buildFromTreeData, findSelection, enumerations).    *)
(* Source: src/src/services/selection-cache.ts                             *)
(***************************************************************************)
EXTENDS Integers, Sequences, FiniteSets, TLC

\* ---------------------------------------------------------------- bounds
\* number of opaque tasks handed to RequestQueue.add in SpecQueue
NumTasks == 5
\* number of makeRequest calls in Spec
NumReq == 2
\* number of makeRequest calls in SpecSettle, where calls wait in the queue
MaxCalls == 4
\* number of access tokens the venue issues (login + refreshes)
MaxTok == 2
NumEvents == 2
MaxBuilds == 2
MaxLines == 2

\* ------------------------------------------------------ program constants
\* RequestQueue.maxConcurrency
maxConcurrency == 3
\* makeRequest: const maxAttempts = 3
maxAttempts == 3
\* checkRateLimit: rateLimitRemaining < 2
lowWaterMark == 2
\* initial rateLimitRemaining
initialRateLimit == 100

TaskIds == 1..NumTasks
ReqIds == 1..MaxCalls
Ids == 1..(IF NumTasks >= MaxCalls THEN NumTasks ELSE MaxCalls)

\* accessToken === null
NoToken == 0

\* settlement of the promise returned by add(): the value, or the Error thrown
\* (its message, and the upstream status the message carries, if any)
Pending == [kind |-> "pending", status |-> "none"]
Resolved == [kind |-> "resolved", status |-> "200"]
Err(msg, status) == [kind |-> msg, status |-> status]

VARIABLES
  queue,              \* RequestQueue.queue: ids of the tasks waiting, oldest first
  running,            \* RequestQueue.running
  pc,                 \* position of every task / makeRequest call
  startOrder,         \* history: ids in the order process() started them
  call,               \* per makeRequest call: its locals, its promise, its history
  accessToken,        \* ProphetXAPI.accessToken
  refreshToken,       \* ProphetXAPI.refreshToken is set
  refreshLock,        \* ProphetXAPI.refreshLock
  rateLimitRemaining, \* ProphetXAPI.rateLimitRemaining
  timers,             \* pending proactive-refresh setTimeout callbacks
  proactive,          \* proactiveRefreshToken is awaiting refreshAccessToken
  staleToken,         \* history: the access token in force when refreshAccessToken
                      \* last threw (NoToken: not since the latest authenticate())
  cache,              \* SelectionCache.cache: event -> market -> lineKey -> id -> record
  line_idIndex,       \* SelectionCache.line_idIndex: line_id -> record
  lastUpdated,        \* SelectionCache.lastUpdated (0: null, else the time of the build)
  builds,             \* history: buildFromTreeData calls made so far (the clock)
  tree,               \* history: the argument of the latest buildFromTreeData call
  threw,              \* history: the latest buildFromTreeData call ended by an exception
  rawMarket,          \* the market (of getMarkets) buildHierarchy processed last
  normalizedGroups,   \* buildHierarchy's `normalizedGroups` for that market
  marketNode,         \* buildHierarchy's `marketNode` for that market
  catalog,            \* what the venue returned during the latest buildHierarchy
  hierarchy,          \* the tree the latest buildHierarchy returned
  american,           \* the American odds `a` converted last
  decimal,            \* americanToDecimal(a), an exact fraction
  roundTrip,          \* decimalToAmerican(americanToDecimal(a))
  converted,          \* "none", "ok", or "error" when the conversion threw
  clampPrice,         \* clampToLadder's `decimalPrice` of the latest call
  clampLadder,        \* clampToLadder's `ladder` of the latest call
  clampResult,        \* what that call returned
  oddsLadder,         \* betting-utils' module variable `oddsLadder`
  wagerParams,        \* buildWagerPayload's `params` of the latest call
  wagerResult,        \* the payload that call returned, or that it threw
  enabled,            \* useWagerPolling: the `enabled` option of the latest render
  mounted,            \* the component owning the hook is mounted
  wagers,             \* state `wagers`: the pages held, each named by its cursor
  isLoading,          \* state `isLoading`
  pollError,          \* state `error`
  lastSyncedAt,       \* state `lastSyncedAt`
  nextCursor,         \* state `nextCursor` (0: undefined)
  hasMore,            \* state `hasMore`
  intervalRef,        \* intervalRef.current holds an armed interval
  retryCountRef,      \* retryCountRef.current
  inflight,           \* getMyWagers calls awaiting their answer
  retryTimers,        \* pending `setTimeout(() => fetchWagers(cursor, append))`
  started,            \* history: number of getMyWagers calls made so far
  cursorsIssued,      \* the venue: number of cursors handed out so far
  refreshMark,        \* history: cursorsIssued when a refresh() last succeeded
  failuresInARow,     \* history: failed fetches since the last successful one
  retriesInRun,       \* history: retries scheduled since the last successful fetch or clear()
  olderInFlight,      \* history: how many of the first calls in flight were made
                      \* before the latest-made replacing call already applied
  lastOp,             \* history: the hook operation that ran last, and its fetch
  wager,              \* enrichWagerData's `wager` of the latest call
  displayData,        \* what that call returned, or that it threw
  proxyRequest,       \* prophetx-proxy: the request of the latest invocation
  upstream,           \* what the venue answered to its fetch
  proxyResponse,      \* the Response the handler returned
  pagesPc,            \* getMyWagers: "idle", "awaiting" makeRequest, "returned", "rejected"
  allWagers,          \* getMyWagers' `all`
  pageCursor,         \* getMyWagers' `cursor`
  pageRequests,       \* history: the cursor parameter of every request made, in order
  pageResponses,      \* history: the responses makeRequest resolved with, in order
  pagesResult         \* what the promise of getMyWagers settled with

queueVars == <<queue, running, pc, startOrder>>
authVars == <<accessToken, refreshToken, refreshLock, rateLimitRemaining, timers, proactive,
              staleToken>>
cacheVars == <<cache, line_idIndex, lastUpdated, builds, tree, threw>>
builderVars == <<rawMarket, normalizedGroups, marketNode, catalog, hierarchy>>
oddsVars == <<american, decimal, roundTrip, converted>>
clampVars == <<clampPrice, clampLadder, clampResult>>
wagerVars == <<oddsLadder, wagerParams, wagerResult>>
hookState == <<wagers, isLoading, pollError, lastSyncedAt, nextCursor, hasMore>>
pollVars == <<enabled, mounted, hookState, intervalRef, retryCountRef, inflight,
              retryTimers, started, cursorsIssued, refreshMark, failuresInARow,
              olderInFlight, retriesInRun,
              lastOp>>
enrichVars == <<wager, displayData>>
proxyVars == <<proxyRequest, upstream, proxyResponse>>
pagesVars == <<pagesPc, allWagers, pageCursor, pageRequests, pageResponses, pagesResult>>
extVars == <<enrichVars, proxyVars, pagesVars>>
vars == <<queueVars, call, authVars, cacheVars, builderVars, oddsVars, clampVars,
          wagerVars, pollVars, extVars>>

\* a makeRequest call that has not run yet:
\*   attempt      `let attempt`
\*   reqToken     requestBody.accessToken
\*   fetches      history: fetches of the endpoint the call has issued
\*   lastOutcome  history: upstream outcome of the latest completed attempt
\*   result       how the promise returned by add() settled
NewCall ==
  [attempt |-> 0, reqToken |-> NoToken, fetches |-> 0, lastOutcome |-> "none",
   result |-> Pending]

\* ===================================================== JavaScript values

\* undefined and null, as strings beside the other string values
Undef == "undefined"
Null == "null"

\* a || b  and  a ?? b  on string-valued fields
OrElse(a, b) == IF a \in {Undef, Null, ""} THEN b ELSE a
Coalesce(a, b) == IF a \in {Undef, Null} THEN b ELSE a

\* a line value: a number (v its decimal form), a string, undefined or null
NumLine(v) == [t |-> "num", v |-> v]
StrLine(v) == [t |-> "str", v |-> v]
UndefLine == [t |-> "undef", v |-> Undef]
NullLine == [t |-> "null", v |-> Null]

\* String(line) and `${line}`
StringOf(line) == line.v
\* line is falsy: undefined, null, 0, ''
FalsyLine(line) ==
  \/ line.t \in {"undef", "null"}
  \/ line.t = "num" /\ line.v = "0"
  \/ line.t = "str" /\ line.v = ""
\* a ?? b  on line values
CoalesceLine(a, b) == IF a.t \in {"undef", "null"} THEN b ELSE a

\* Number(str).toString() for the strings of the model; "NaN" when not numeric
Numerals == {"-1.5", "0", "1.5", "2.5"}
NumberOfString(str) ==
  CASE str \in Numerals -> str
    [] str = "1.50" -> "1.5"
    [] str = "" -> "0"
    [] OTHER -> "NaN"

\* Map: the entries <<key, value>> in insertion order
MapHas(m, k) == \E i \in 1..Len(m) : m[i][1] = k
MapGet(m, k) == m[CHOOSE i \in 1..Len(m) : m[i][1] = k][2]
MapSet(m, k, v) ==
  IF MapHas(m, k)
  THEN [i \in 1..Len(m) |-> IF m[i][1] = k THEN <<k, v>> ELSE m[i]]
  ELSE Append(m, <<k, v>>)
MapValues(m) == [i \in 1..Len(m) |-> m[i][2]]
MapKeys(m) == [i \in 1..Len(m) |-> m[i][1]]

\* ============================================= ProphetXAPI.buildHierarchy

\* TreeNode.data with no field set, and a TreeNode
NoData ==
  [scheduled |-> Undef, status |-> Undef, odds |-> Undef, stake |-> Undef,
   line |-> UndefLine, display_odds |-> Undef, line_id |-> Undef]
Node(id, name, type, children, data) ==
  [id |-> id, name |-> name, type |-> type, children |-> children, data |-> data]

\* selection node under a line node: line is `selection.line ?? group.line ?? null`
LineSelectionNode(market, group, sel) ==
  Node(OrElse(sel.line_id,
              ToString(market.id) \o "-" \o
                OrElse(sel.name, OrElse(sel.display_name, "unknown"))),
       OrElse(sel.display_name, OrElse(sel.name, "Unknown Selection")),
       "selection", <<>>,
       [NoData EXCEPT !.odds = Coalesce(sel.odds, Null),
                      !.stake = Coalesce(sel.stake, Null),
                      !.line = CoalesceLine(sel.line, CoalesceLine(group.line, NullLine)),
                      !.display_odds = OrElse(sel.display_odds, Null),
                      !.line_id = OrElse(sel.line_id, Undef)])

\* selection node directly under the market: `line: undefined`
DirectSelectionNode(market, sel) ==
  Node(OrElse(sel.line_id,
              ToString(market.id) \o "-" \o
                OrElse(sel.name, OrElse(sel.display_name, "unknown"))),
       OrElse(sel.display_name, OrElse(sel.name, "Unknown Selection")),
       "selection", <<>>,
       [NoData EXCEPT !.odds = Coalesce(sel.odds, Null),
                      !.stake = Coalesce(sel.stake, Null),
                      !.line = UndefLine,
                      !.display_odds = OrElse(sel.display_odds, Null),
                      !.line_id = OrElse(sel.line_id, Undef)])

\* `if (selection && (selection.line_id || selection.name || selection.display_name))`
Labelled(sel) == OrElse(sel.line_id, OrElse(sel.name, sel.display_name)) \notin {Undef, Null, ""}

RECURSIVE LineChildren(_, _, _)
LineChildren(market, group, sels) ==
  IF sels = <<>> THEN <<>>
  ELSE (IF Labelled(Head(sels))
        THEN <<LineSelectionNode(market, group, Head(sels))>> ELSE <<>>)
       \o LineChildren(market, group, Tail(sels))

\* the line node of one group (type 'category', no data)
LineNode(market, group) ==
  Node(ToString(market.id) \o "-line-" \o
         (IF FalsyLine(group.line) THEN "default" ELSE StringOf(group.line)),
       IF group.line.t \notin {"undef", "null"}
       THEN "Line " \o StringOf(group.line) ELSE "Default Line",
       "category", LineChildren(market, group, group.selections), NoData)

\* `if (lineNode.children.length > 0) marketNode.children.push(lineNode)`
RECURSIVE LineNodes(_, _)
LineNodes(market, groups) ==
  IF groups = <<>> THEN <<>>
  ELSE (IF LineNode(market, Head(groups)).children # <<>>
        THEN <<LineNode(market, Head(groups))>> ELSE <<>>)
       \o LineNodes(market, Tail(groups))

\* `normalizedGroups.flatMap(g => g.selections)`, each as a direct selection node
RECURSIVE DirectNodes(_, _)
DirectNodes(market, groups) ==
  IF groups = <<>> THEN <<>>
  ELSE [i \in 1..Len(Head(groups).selections) |->
          DirectSelectionNode(market, Head(groups).selections[i])]
       \o DirectNodes(market, Tail(groups))

\* `const needsLineLayer = normalizedGroups.length > 1`
NeedsLineLayer_Always(groups) == Len(groups) >= 1
NeedsLineLayer(groups) == Len(groups) > 1

\* the market node built from the market's merged, de-duplicated groups
MarketNode(market) ==
  Node(ToString(market.id), market.name, "market",
       IF NeedsLineLayer(market.groups)
       THEN LineNodes(market, market.groups)
       ELSE DirectNodes(market, market.groups),
       [NoData EXCEPT !.status = market.status])

\* the category nodes of an event: markets grouped by `category_name || 'Other'`
\* in first-seen order; a category node is kept when it has markets
CategoryNames(markets) ==
  LET RECURSIVE names(_, _)
      names(i, acc) ==
        IF i > Len(markets) THEN acc
        ELSE LET c == OrElse(markets[i].category_name, "Other")
             IN names(i + 1, IF \E j \in 1..Len(acc) : acc[j] = c
                             THEN acc ELSE Append(acc, c))
  IN names(1, <<>>)

\* the market nodes of one category; a market without id (bad = "noid") throws
\* at `market.id.toString()` inside the market's try and is passed over
RECURSIVE MarketNodes(_, _)
MarketNodes(markets, cat) ==
  IF markets = <<>> THEN <<>>
  ELSE (IF OrElse(Head(markets).category_name, "Other") = cat
           /\ Head(markets).bad # "noid"
        THEN <<MarketNode(Head(markets))>> ELSE <<>>)
       \o MarketNodes(Tail(markets), cat)

\* `if (categoryNode.children.length > 0) eventNode.children.push(categoryNode)`
CategoryNodes(event) ==
  LET cats == CategoryNames(event.markets)
      nodes == [i \in 1..Len(cats) |->
                  Node(ToString(event.event_id) \o "-" \o cats[i], cats[i], "category",
                       MarketNodes(event.markets, cats[i]), NoData)]
      hasMarkets(node) == node.children # <<>>
  IN SelectSeq(nodes, hasMarkets)

\* the event node: without children when getMarkets gave no array
EventNode(event) ==
  Node(ToString(event.event_id), event.name, "event",
       IF event.marketsFetch = "notArray" THEN <<>> ELSE CategoryNodes(event),
       [NoData EXCEPT !.scheduled = event.scheduled, !.status = event.status])

\* a null among the markets throws at `market.category_name`, in the event's try
GroupingThrows(event) ==
  /\ event.marketsFetch # "notArray"
  /\ \E i \in 1..Len(event.markets) : event.markets[i].bad = "null"

\* the loop over the events: an event without a markets array is pushed as it
\* is; an event whose processing throws is passed over; otherwise
\* `if (eventNode.children.length > 0) tournamentNode.children.push(eventNode)`
RECURSIVE EventNodes(_)
EventNodes(events) ==
  IF events = <<>> THEN <<>>
  ELSE (IF Head(events).marketsFetch = "notArray"
        THEN <<EventNode(Head(events))>>
        ELSE IF GroupingThrows(Head(events)) THEN <<>>
        ELSE IF EventNode(Head(events)).children # <<>>
        THEN <<EventNode(Head(events))>> ELSE <<>>)
       \o EventNodes(Tail(events))

TournamentNode(t) ==
  Node(ToString(t.id), t.name, "tournament", EventNodes(t.events), NoData)

\* buildHierarchy(), given what getTournaments, getEvents and getMarkets return:
\* a tournament whose getEvents throws or gives no array is passed over, then
\* `if (tournamentNode.children.length > 0) treeNodes.push(tournamentNode)`
RECURSIVE buildHierarchy(_)
buildHierarchy(tournaments) ==
  IF tournaments = <<>> THEN <<>>
  ELSE (IF Head(tournaments).eventsFetch = "ok"
           /\ TournamentNode(Head(tournaments)).children # <<>>
        THEN <<TournamentNode(Head(tournaments))>> ELSE <<>>)
       \o buildHierarchy(Tail(tournaments))

\* ========================================================= SelectionCache

\* a null where a TreeNode is expected: reading a property of it throws
NullNode == Node(Null, Null, "null", <<>>, NoData)
IsNull(n) == n.type = "null"

\* findSelection's `null`
NoRecord == [line_id |-> Null]

\* normalizeLineKey(line)
normalizeLineKey(line) ==
  IF line.t \in {"undef", "null"} THEN "__default__"
  ELSE IF NumberOfString(StringOf(line)) = "NaN" THEN StringOf(line)
  ELSE NumberOfString(StringOf(line))

\* `map.clear()`
MapClear_Keep(m) == m
MapClear(m) == <<>>

\* `if (!map.has(key)) map.set(key, new Map())`
Ensure(m, k) == IF MapHas(m, k) THEN m ELSE Append(m, <<k, <<>>>>)

\* `lineCache.set(selection.id, record)` on the map reached through the levels
SetRecord(c, e, m, k, id, rec) ==
  LET em == MapGet(c, e)
      mm == MapGet(em, m)
      lm == MapGet(mm, k)
  IN MapSet(c, e, MapSet(em, m, MapSet(mm, k, MapSet(lm, id, rec))))

\* `(selection.data?.line_id as string) || (selection.id as string)`
LineIdOf(sel) == OrElse(sel.data.line_id, sel.id)

\* the children a market node's child is iterated for: `selectionGroup.children`
GroupChildren(selectionGroup) == selectionGroup.children

\* the loops of buildFromTreeData; st = [cache, index, threw], and a loop stops
\* at the first exception
RECURSIVE WalkSelections(_, _, _, _, _)
WalkSelections(sels, st, eventId, marketId, lineKey) ==
  IF sels = <<>> \/ st.threw THEN st
  ELSE LET selection == Head(sels)
       IN IF IsNull(selection) THEN [st EXCEPT !.threw = TRUE]
          ELSE IF LineIdOf(selection) \in {Undef, Null, ""}
          THEN WalkSelections(Tail(sels), st, eventId, marketId, lineKey)
          ELSE LET record ==
                     [line_id |-> LineIdOf(selection),
                      internalId |-> selection.id,
                      name |-> selection.name,
                      odds |-> Coalesce(selection.data.odds, Null),
                      stake |-> Coalesce(selection.data.stake, Null),
                      line |-> CoalesceLine(selection.data.line, NullLine),
                      eventId |-> eventId,
                      marketId |-> marketId,
                      lineKey |-> lineKey,
                      rawData |-> selection.data]
               IN WalkSelections(Tail(sels),
                    [st EXCEPT
                       !.cache = SetRecord(@, eventId, marketId, lineKey,
                                           selection.id, record),
                       !.index = MapSet(@, LineIdOf(selection), record)],
                    eventId, marketId, lineKey)

RECURSIVE WalkGroups(_, _, _, _)
WalkGroups(groups, st, eventId, marketId) ==
  IF groups = <<>> \/ st.threw THEN st
  ELSE LET selectionGroup == Head(groups)
       IN IF IsNull(selectionGroup) THEN [st EXCEPT !.threw = TRUE]
          ELSE LET lineKey == normalizeLineKey(selectionGroup.data.line)
                   em == MapGet(st.cache, eventId)
                   mm == MapGet(em, marketId)
                   st1 == [st EXCEPT !.cache =
                             MapSet(@, eventId, MapSet(em, marketId, Ensure(mm, lineKey)))]
               IN WalkGroups(Tail(groups),
                    WalkSelections(GroupChildren(selectionGroup), st1, eventId,
                                   marketId, lineKey),
                    eventId, marketId)

RECURSIVE WalkMarkets(_, _, _)
WalkMarkets(markets, st, eventId) ==
  IF markets = <<>> \/ st.threw THEN st
  ELSE LET market == Head(markets)
       IN IF IsNull(market) THEN [st EXCEPT !.threw = TRUE]
          ELSE LET em == MapGet(st.cache, eventId)
                   st1 == [st EXCEPT !.cache = MapSet(@, eventId, Ensure(em, market.id))]
               IN WalkMarkets(Tail(markets),
                    WalkGroups(market.children, st1, eventId, market.id), eventId)

RECURSIVE WalkCategories(_, _, _)
WalkCategories(categories, st, eventId) ==
  IF categories = <<>> \/ st.threw THEN st
  ELSE IF IsNull(Head(categories)) THEN [st EXCEPT !.threw = TRUE]
  ELSE WalkCategories(Tail(categories),
         WalkMarkets(Head(categories).children, st, eventId), eventId)

RECURSIVE WalkEvents(_, _)
WalkEvents(events, st) ==
  IF events = <<>> \/ st.threw THEN st
  ELSE LET event == Head(events)
       IN IF IsNull(event) THEN [st EXCEPT !.threw = TRUE]
          ELSE WalkEvents(Tail(events),
                 WalkCategories(event.children,
                                [st EXCEPT !.cache = Ensure(@, event.id)], event.id))

RECURSIVE WalkTournaments(_, _)
WalkTournaments(tournaments, st) ==
  IF tournaments = <<>> \/ st.threw THEN st
  ELSE IF IsNull(Head(tournaments)) THEN [st EXCEPT !.threw = TRUE]
  ELSE WalkTournaments(Tail(tournaments), WalkEvents(Head(tournaments).children, st))

\* buildFromTreeData(treeData): `this.cache.clear(); this.line_idIndex.clear();`
\* then the loops, on the maps themselves
buildFromTreeData(c, ix, treeData) ==
  WalkTournaments(treeData,
                  [cache |-> MapClear(c), index |-> MapClear(ix), threw |-> FALSE])

RECURSIVE Concat(_)
Concat(ss) == IF ss = <<>> THEN <<>> ELSE Head(ss) \o Concat(Tail(ss))

\* the records of a market map / an event map / the whole cache, in iteration order
MarketRecords(mm) == Concat([i \in 1..Len(mm) |-> MapValues(mm[i][2])])
EventRecords(em) == Concat([i \in 1..Len(em) |-> MarketRecords(em[i][2])])
flattenSelectionCache(c) == Concat([i \in 1..Len(c) |-> EventRecords(c[i][2])])

Given(x) == x \notin {Undef, Null, ""}

\* the search parameters with no field given
NoParams ==
  [eventId |-> Undef, marketId |-> Undef, lineKey |-> Undef, line_id |-> Undef,
   internalId |-> Undef, name |-> Undef]

\* "Check remaining filters": a record is passed over when a given internalId
\* or a given name differs from its own
Keep_InternalIdOnly(params, rec) ==
  Given(params.internalId) => rec.internalId = params.internalId
Keep(params, rec) ==
  /\ Given(params.internalId) => rec.internalId = params.internalId
  /\ Given(params.name) => rec.name = params.name

\* findSelection(params) on index maps c (cache) and ix (line_idIndex)
findSelection(c, ix, params) ==
  IF Given(params.line_id)
  THEN IF MapHas(ix, params.line_id) THEN MapGet(ix, params.line_id) ELSE NoRecord
  ELSE LET searchEvents ==
             IF Given(params.eventId)
             THEN IF MapHas(c, params.eventId) THEN <<MapGet(c, params.eventId)>> ELSE <<>>
             ELSE MapValues(c)
           searchMarkets(em) ==
             IF Given(params.marketId)
             THEN IF MapHas(em, params.marketId)
                  THEN <<MapGet(em, params.marketId)>> ELSE <<>>
             ELSE MapValues(em)
           searchLines(mm) ==
             IF Given(params.lineKey)
             THEN IF MapHas(mm, params.lineKey)
                  THEN <<MapGet(mm, params.lineKey)>> ELSE <<>>
             ELSE MapValues(mm)
           ofMarket(mm) ==
             Concat([i \in 1..Len(searchLines(mm)) |-> MapValues(searchLines(mm)[i])])
           ofEvent(em) ==
             Concat([i \in 1..Len(searchMarkets(em)) |-> ofMarket(searchMarkets(em)[i])])
           records == Concat([i \in 1..Len(searchEvents) |-> ofEvent(searchEvents[i])])
           keep(rec) == Keep(params, rec)
           found == SelectSeq(records, keep)
       IN IF found = <<>> THEN NoRecord ELSE Head(found)

\* getEventSelections(eventId), getMarketSelections(eventId, marketId)
getEventSelections(c, eventId) ==
  IF MapHas(c, eventId) THEN EventRecords(MapGet(c, eventId)) ELSE <<>>
getMarketSelections(c, eventId, marketId) ==
  IF MapHas(c, eventId) /\ MapHas(MapGet(c, eventId), marketId)
  THEN MarketRecords(MapGet(MapGet(c, eventId), marketId))
  ELSE <<>>

\* getStats()
getStats(c, ix, updated) ==
  [events |-> Len(c),
   markets |-> Len(Concat([i \in 1..Len(c) |-> c[i][2]])),
   selections |-> Len(flattenSelectionCache(c)),
   lastUpdated |-> updated,
   line_idCount |-> Len(ix)]

\* ------------------------------------------------ catalogs and tree inputs

\* an upstream selection record
Sel(line_id, name, line) ==
  [line_id |-> line_id, name |-> name, display_name |-> Undef, odds |-> "110",
   stake |-> "50", line |-> line, display_odds |-> "+110"]
Group(line, selections) == [line |-> line, selections |-> selections]

\* the merged groups a market of event e can have:
\*   "none"      no selections
\*   "moneyline" one default group, both selections with a line_id
\*   "spread"    two lines, every selection with a line_id
\*   "total"     two lines, the second selection without line_id
\*   "prop"      one default group, its selection without line_id
MarketKinds == {"none", "moneyline", "spread", "total", "prop"}
GroupsOf(kind, e) ==
  CASE kind = "none" -> <<>>
    [] kind = "moneyline" ->
         <<Group(UndefLine, <<Sel("L" \o ToString(e) \o "h", "Home", UndefLine),
                              Sel("L" \o ToString(e) \o "a", "Away", UndefLine)>>)>>
    [] kind = "spread" ->
         <<Group(NumLine("-1.5"),
                 <<Sel("L" \o ToString(e) \o "h", "Home", NumLine("-1.5"))>>),
           Group(NumLine("1.5"),
                 <<Sel("L" \o ToString(e) \o "a", "Away", NumLine("1.5"))>>)>>
    [] kind = "total" ->
         <<Group(NumLine("1.5"),
                 <<Sel("L" \o ToString(e) \o "o", "Over", NumLine("1.5"))>>),
           Group(NumLine("2.5"), <<Sel(Undef, "Under", NumLine("2.5"))>>)>>
    [] OTHER -> <<Group(UndefLine, <<Sel(Undef, "Yes", UndefLine)>>)>>

MarketOf(kind, e) ==
  [id |-> 10 * e, name |-> kind, status |-> "active", category_name |-> Undef,
   groups |-> GroupsOf(kind, e), bad |-> "no"]
EventOf(kind, e) ==
  [event_id |-> e, name |-> "event", scheduled |-> "2025", status |-> "open",
   markets |-> <<MarketOf(kind, e)>>, marketsFetch |-> "ok"]

\* the catalogs: no tournament, or one tournament of NumEvents events with one
\* market each
Catalogs ==
  {<<>>} \cup
  {<<[id |-> 100, name |-> "tournament", eventsFetch |-> "ok",
      events |-> [e \in 1..NumEvents |-> EventOf(kinds[e], e)]]>> :
     kinds \in [1..NumEvents -> MarketKinds]}

\* a tree with a null among the events of its first tournament, after the first
Malformed(t) ==
  [t EXCEPT ![1].children = <<Head(@), NullNode>> \o Tail(@)]

\* what buildFromTreeData can be handed: the trees of buildHierarchy, and those
\* that have no TreeNode where the type promises one
BuilderTrees == {buildHierarchy(c) : c \in Catalogs}

\* a TreeNode[] no builder returns: under one line of a market two selections
\* that share their node id and differ in data.line_id
TwinSelection(line_id) ==
  Node("s1", "Home", "selection", <<>>, [NoData EXCEPT !.line_id = line_id])
TwinTree ==
  <<Node("100", "tournament", "tournament",
      <<Node("1", "event", "event",
          <<Node("1-Other", "Other", "category",
              <<Node("10", "prop", "market",
                  <<Node("10-line-1.5", "Line 1.5", "category",
                         <<TwinSelection("La"), TwinSelection("Lb")>>,
                         [NoData EXCEPT !.line = NumLine("1.5")])>>,
                  NoData)>>,
              NoData)>>,
          NoData)>>,
      NoData)>>

TreeInputs ==
  BuilderTrees \cup {Malformed(t) : t \in BuilderTrees \ {<<>>}} \cup {TwinTree}

\* ------------------------------------------------------------ the actions

\* selectionCache.buildFromTreeData(treeData); an exception leaves the maps as
\* the loops left them and lastUpdated as it was
BuildFromTreeData(treeData) ==
  /\ builds < MaxBuilds
  /\ LET st == buildFromTreeData(cache, line_idIndex, treeData)
     IN /\ cache' = st.cache
        /\ line_idIndex' = st.index
        /\ threw' = st.threw
        /\ lastUpdated' = IF st.threw THEN lastUpdated ELSE builds + 1
  /\ builds' = builds + 1
  /\ tree' = treeData
  /\ UNCHANGED <<queueVars, call, authVars, builderVars, oddsVars, clampVars, wagerVars, pollVars, extVars>>

\* selectionCache.clear()
Clear ==
  /\ lastUpdated # 0 \/ cache # <<>>
  /\ cache' = <<>>
  /\ line_idIndex' = <<>>
  /\ lastUpdated' = 0
  /\ UNCHANGED <<builds, tree, threw, queueVars, call, authVars, builderVars, oddsVars, clampVars, wagerVars, pollVars, extVars>>

\* ============================================ ProphetXAPI: shape normalizer

\* market.selections: absent, a dictionary (its entries <<key, array>> in
\* Object.entries order: an integer key before the others), an array of arrays,
\* or a flat array of selections
NoSelections == [shape |-> "none", dict |-> <<>>, nested |-> <<>>, flat |-> <<>>]
DictSelections(entries) == [NoSelections EXCEPT !.shape = "dict", !.dict = entries]
NestedSelections(arrays) == [NoSelections EXCEPT !.shape = "nested", !.nested = arrays]
FlatSelections(sels) == [NoSelections EXCEPT !.shape = "flat", !.flat = sels]

\* market.market_lines: absent, an array of line objects {line, selections}, or
\* a dictionary keyed by line whose values are arrays
NoMarketLines == [shape |-> "none", items |-> <<>>, dict |-> <<>>]
ItemMarketLines(items) == [NoMarketLines EXCEPT !.shape = "items", !.items = items]
DictMarketLines(entries) == [NoMarketLines EXCEPT !.shape = "dict", !.dict = entries]

\* `const n = Number(k); ... Number.isNaN(n) ? k : n`
LineOfKey_Raw(k) == StrLine(k)
LineOfKey(k) ==
  IF NumberOfString(k) = "NaN" THEN StrLine(k) ELSE NumLine(NumberOfString(k))

\* `new Map(entries)`, and `map.get(k).push(v)` after `if (!map.has(k)) map.set(k, [])`
RECURSIVE MapOf(_, _)
MapOf(entries, m) ==
  IF entries = <<>> THEN m
  ELSE MapOf(Tail(entries), MapSet(m, Head(entries)[1], Head(entries)[2]))
MapPush(m, k, v) == MapSet(m, k, (IF MapHas(m, k) THEN MapGet(m, k) ELSE <<>>) \o v)

\* B) `group.find(x => x && x.line != null)?.line ?? undefined`
DeclaredLine(group) ==
  LET declares(x) == x.line.t \notin {"undef", "null"}
  IN IF SelectSeq(group, declares) = <<>> THEN UndefLine
     ELSE Head(SelectSeq(group, declares)).line

\* C) `String(sel.line ?? '__default__')`, grouped in order of first appearance
RECURSIVE ByLine(_, _)
ByLine(sels, m) ==
  IF sels = <<>> THEN m
  ELSE ByLine(Tail(sels),
              MapPush(m, IF Head(sels).line.t \in {"undef", "null"}
                         THEN "__default__" ELSE StringOf(Head(sels).line),
                      <<Head(sels)>>))

\* normalizeSelections(market), for market.selections = s
normalizeSelections(s) ==
  CASE s.shape = "dict" ->
         [i \in 1..Len(s.dict) |-> Group(LineOfKey(s.dict[i][1]), s.dict[i][2])]
    [] s.shape = "nested" ->
         LET nonEmpty(group) == group # <<>>
             kept == SelectSeq(s.nested, nonEmpty)
         IN [i \in 1..Len(kept) |-> Group(DeclaredLine(kept[i]), kept[i])]
    [] s.shape = "flat" ->
         LET byLine == ByLine(s.flat, <<>>)
         IN [i \in 1..Len(byLine) |->
               Group(IF byLine[i][1] = "__default__" THEN UndefLine
                     ELSE LineOfKey(byLine[i][1]),
                     byLine[i][2])]
    [] OTHER -> <<>>

\* `asLine(v)`: v == null ? undefined : (isNaN(Number(v)) ? v : Number(v))
asLine(v) ==
  IF v.t \in {"undef", "null"} THEN UndefLine
  ELSE IF v.t = "num" THEN v ELSE LineOfKey(StringOf(v))

\* normalizeFromMarketLines(market), for market.market_lines = ml whose line
\* objects carry `line` and `selections`
normalizeFromMarketLines(ml) ==
  CASE ml.shape = "items" ->
         LET hasSels(item) == item.selections # <<>>
             kept == SelectSeq(ml.items, hasSels)
         IN [i \in 1..Len(kept) |-> Group(asLine(kept[i].line), kept[i].selections)]
    [] ml.shape = "dict" ->
         [i \in 1..Len(ml.dict) |->
            Group(asLine(StrLine(ml.dict[i][1])), ml.dict[i][2])]
    [] OTHER -> <<>>

\* LINE_MARKET_RE.test(marketName), on the market names of the model
LineMarketNames == {"spread", "total"}
IsLineMarket(marketName) == marketName \in LineMarketNames

\* normalizeLineKeyForMarket(marketName, line)
normalizeLineKeyForMarket(marketName, line) ==
  IF ~IsLineMarket(marketName) THEN "__default__"
  ELSE IF line.t \in {"undef", "null"} THEN "__default__"
  ELSE StringOf(line)

\* mergeGroupsForMarket(marketName, groups)
RECURSIVE MergeInto(_, _, _)
MergeInto(marketName, groups, merged) ==
  IF groups = <<>> THEN merged
  ELSE LET g == Head(groups)
           key == normalizeLineKeyForMarket(marketName, g.line)
           had == IF MapHas(merged, key) THEN MapGet(merged, key)
                  ELSE Group(IF key = "__default__" THEN UndefLine ELSE g.line, <<>>)
       IN MergeInto(marketName, Tail(groups),
                    MapSet(merged, key,
                           [had EXCEPT !.selections = @ \o g.selections]))
mergeGroupsForMarket(marketName, groups) ==
  MapValues(MergeInto(marketName, groups, <<>>))

\* `selKey`: s.line_id ?? `${name ?? ''}|${display_name ?? ''}|${odds ?? ''}|${line ?? ''}`
selKey(s) ==
  IF s.line_id \notin {Undef, Null} THEN s.line_id
  ELSE Coalesce(s.name, "") \o "|" \o Coalesce(s.display_name, "") \o "|"
         \o Coalesce(s.odds, "") \o "|"
         \o (IF s.line.t \in {"undef", "null"} THEN "" ELSE StringOf(s.line))

\* `Array.from(new Map(g.selections.map(s => [selKey(s), s])).values())`
Deduplicated(selections) ==
  MapValues(MapOf([i \in 1..Len(selections) |->
                     <<selKey(selections[i]), selections[i]>>], <<>>))

\* the groups buildHierarchy works on for one market: both sources normalized,
\* merged and de-duplicated
NormalizedGroups(m) ==
  LET merged == mergeGroupsForMarket(m.name,
                  normalizeSelections(m.selections)
                    \o normalizeFromMarketLines(m.market_lines))
  IN [i \in 1..Len(merged) |->
        [merged[i] EXCEPT !.selections = Deduplicated(@)]]

\* ------------------------------------------------------ raw market inputs

\* upstream selection records: two with a line_id, a later copy of the first
\* with other odds, one with a name only, one with neither line_id nor name
SelHome == Sel("La", "Home", UndefLine)
SelAway == Sel("Lb", "Away", UndefLine)
SelHomeLater == [SelHome EXCEPT !.odds = "120", !.display_odds = "+120"]
SelOver == Sel(Undef, "Over", UndefLine)
SelBare == Sel(Undef, Undef, UndefLine)
WithLine(sel, line) == [sel EXCEPT !.line = line]

\* the arrays a dictionary key maps to
SelArrays ==
  {<<>>, <<SelHome>>, <<SelHome, SelAway>>, <<SelHome, SelAway, SelHomeLater>>,
   <<SelBare>>, <<SelOver, SelAway>>}
LineKeys == {"-1.5", "1.5", "1.50", "0"}

\* sequences of length 1..n over S
SeqsUpTo(S, n) == UNION {[1..k -> S] : k \in 1..n}

DictPayloads ==
  {DictSelections(entries) :
     entries \in {e \in SeqsUpTo(LineKeys \X SelArrays, MaxLines) :
                    /\ \A i, j \in 1..Len(e) : i # j => e[i][1] # e[j][1]
                    /\ \A i \in 1..Len(e) : e[i][1] = "0" => i = 1}}
FlatPayloads ==
  {FlatSelections(sels) :
     sels \in {<<>>} \cup
       SeqsUpTo({WithLine(SelHome, NumLine("1.5")), WithLine(SelAway, NumLine("-1.5")),
                 SelAway, WithLine(SelHomeLater, NumLine("1.5")),
                 WithLine(SelOver, NumLine("0"))}, MaxLines)}
NestedPayloads ==
  {NestedSelections(arrays) :
     arrays \in SeqsUpTo({<<>>, <<SelAway, WithLine(SelHome, NumLine("1.5"))>>,
                          <<WithLine(SelAway, NumLine("-1.5"))>>, <<SelOver>>},
                         MaxLines)}
MarketLinesPayloads ==
  {NoMarketLines,
   ItemMarketLines(<<[line |-> StrLine("2.5"), selections |-> <<SelOver>>]>>),
   DictMarketLines(<<<<"1.5", <<SelHomeLater>>>>>>)}

\* the markets getMarkets can return for one event
RawMarkets ==
  {[id |-> 10, name |-> name, status |-> "active", category_name |-> Undef,
    selections |-> s, market_lines |-> ml] :
     name \in {"moneyline", "spread"},
     s \in {NoSelections} \cup DictPayloads \cup FlatPayloads \cup NestedPayloads,
     ml \in MarketLinesPayloads}

\* no market processed yet
NoMarket ==
  [id |-> 0, name |-> "none", status |-> Undef, category_name |-> Undef,
   selections |-> NoSelections, market_lines |-> NoMarketLines]

\* the body of buildHierarchy's loop over the markets of a category, for one
\* market: normalize, merge, de-duplicate, decide the line layer; it reads and
\* keeps nothing of the markets processed before, so one market is followed
ProcessMarket(m) ==
  /\ rawMarket = NoMarket
  /\ rawMarket' = m
  /\ normalizedGroups' = NormalizedGroups(m)
  /\ marketNode' =
       MarketNode([id |-> m.id, name |-> m.name, status |-> m.status,
                   category_name |-> m.category_name,
                   groups |-> NormalizedGroups(m)])
  /\ UNCHANGED <<catalog, hierarchy>>
  /\ UNCHANGED <<queueVars, call, authVars, cacheVars, oddsVars, clampVars, wagerVars, pollVars, extVars>>


\* ------------------------------------------- catalogs with failing nodes

\* how a market of getMarkets can be: well-formed, without id, or a null
MarketFaults == {"no", "noid", "null"}

\* the events of the first tournament: getMarkets gave no array, or gave two
\* markets, a moneyline with two selections and a market without selections
FaultyEvents(e) ==
  {[EventOf("none", e) EXCEPT !.markets = <<>>, !.marketsFetch = "notArray"]}
    \cup
  {[EventOf("none", e) EXCEPT
      !.markets = <<[MarketOf("moneyline", e) EXCEPT !.bad = a],
                    [MarketOf("none", e) EXCEPT !.id = 10 * e + 1, !.bad = b]>>] :
     a \in MarketFaults, b \in MarketFaults}

\* the first tournament: getEvents throws, gives no array, or gives NumEvents events
FaultyTournaments ==
  {[id |-> 100, name |-> "tournament", eventsFetch |-> f, events |-> <<>>] :
     f \in {"error", "null"}}
    \cup
  {[id |-> 100, name |-> "tournament", eventsFetch |-> "ok", events |-> events] :
     events \in {ev \in [1..NumEvents -> UNION {FaultyEvents(e) : e \in 1..NumEvents}] :
                   \A e \in 1..NumEvents : ev[e] \in FaultyEvents(e)}}

\* the second tournament: one well-formed event, and getEvents throws or not
SecondTournaments ==
  {[id |-> 200, name |-> "tournament", eventsFetch |-> f,
    events |-> <<EventOf("moneyline", 9)>>] : f \in {"ok", "error"}}

\* what getTournaments, getEvents and getMarkets return during one buildHierarchy
FaultyCatalogs == {<<t1, t2>> : t1 \in FaultyTournaments, t2 \in SecondTournaments}

\* prophetXAPI.buildHierarchy(); it keeps nothing between calls, so one call is
\* followed
BuildHierarchy(c) ==
  /\ catalog = <<>>
  /\ catalog' = c
  /\ hierarchy' = buildHierarchy(c)
  /\ UNCHANGED <<rawMarket, normalizedGroups, marketNode>>
  /\ UNCHANGED <<queueVars, call, authVars, cacheVars, oddsVars, clampVars, wagerVars, pollVars, extVars>>

\* ============================================================ betting-utils
\* Odds conversion.  A decimal price is held as an exact fraction num/den with
\* den > 0; for the integers used here the double arithmetic of the source
\* lands within 1e-9 of the exact value, far from any rounding boundary.

MaxOdds == 160

Frac(n, d) == [num |-> n, den |-> d]
NoDecimal == Frac(0, 1)

Abs(x) == IF x < 0 THEN -x ELSE x

\* Math.round(n/d) for d > 0: the nearest integer, halves towards +Infinity.
MathRound(n, d) == (2 * n + d) \div (2 * d)

\* americanToDecimal: `a > 0 ? 1 + a / 100 : 1 + 100 / Math.abs(a)`, for the
\* number a = a.num / a.den (an integer has a.den = 1).
americanToDecimal(a) ==
  IF a.num > 0 THEN Frac(100 * a.den + a.num, 100 * a.den)
               ELSE Frac(Abs(a.num) + 100 * a.den, Abs(a.num))

\* decimalToAmerican:
\* `d >= 2 ? Math.round((d - 1) * 100) : Math.round(-100 / (d - 1))`.
decimalToAmerican(d) ==
  IF d.num >= 2 * d.den
    THEN MathRound((d.num - d.den) * 100, d.den)
    ELSE MathRound(-100 * d.den, d.num - d.den)

\* The American odds a caller may pass: any integer, zero included.
AmericanOdds == -MaxOdds .. MaxOdds

\* One round trip americanToDecimal -> decimalToAmerican.  americanToDecimal
\* throws 'Invalid American odds' on zero; decimalToAmerican throws on d <= 1.
ConvertOdds(a) ==
  /\ converted = "none"
  /\ american' = a
  /\ IF a = 0
       THEN /\ converted' = "error"
            /\ UNCHANGED <<decimal, roundTrip>>
       ELSE /\ decimal' = americanToDecimal(Frac(a, 1))
            /\ IF americanToDecimal(Frac(a, 1)).num <= americanToDecimal(Frac(a, 1)).den
                 THEN /\ converted' = "error"
                      /\ UNCHANGED roundTrip
                 ELSE /\ converted' = "ok"
                      /\ roundTrip' = decimalToAmerican(americanToDecimal(Frac(a, 1)))
  /\ UNCHANGED <<queueVars, call, authVars, cacheVars, builderVars, clampVars, wagerVars, pollVars, extVars>>

\* Ladder snapping.  Prices and ticks are decimal odds counted in a fixed unit
\* (hundredths), so differences are exact.

MaxTick == 4
MaxLadder == 3

\* A `ladder` argument: an array, or null/undefined (given = FALSE).
Ladder(ticks) == [given |-> TRUE, ticks |-> ticks]
NoLadder == [given |-> FALSE, ticks |-> <<>>]
NoPrice == -1

Nearer_OrEqual(d, diff) == d <= diff
\* `if (d < diff) { best = p; diff = d; }`
Nearer(d, diff) == d < diff

\* `for (const p of ladder)`: the scan, left to right, from (best, diff).
RECURSIVE ClampScan(_, _, _, _)
ClampScan(decimalPrice, rest, best, diff) ==
  IF rest = <<>> THEN best
  ELSE LET p == Head(rest)
           d == Abs(decimalPrice - p)
       IN  IF Nearer(d, diff)
             THEN ClampScan(decimalPrice, Tail(rest), p, d)
             ELSE ClampScan(decimalPrice, Tail(rest), best, diff)

\* clampToLadder: `if (!ladder?.length) return decimalPrice;` then the scan
\* starting from `best = ladder[0], diff = Math.abs(decimalPrice - best)`.
clampToLadder(decimalPrice, ladder) ==
  IF ~ladder.given \/ Len(ladder.ticks) = 0 THEN decimalPrice
  ELSE ClampScan(decimalPrice, ladder.ticks, ladder.ticks[1],
                 Abs(decimalPrice - ladder.ticks[1]))

Ticks == 1 .. MaxTick
TickSeqs == UNION {[1 .. n -> Ticks] : n \in 0 .. MaxLadder}
\* Any array of ticks, in any order and with repeats, or no array at all.
Ladders == {NoLadder} \cup {Ladder(t) : t \in TickSeqs}
Prices == 0 .. MaxTick + 1

ClampToLadder(x, ladder) ==
  /\ clampResult = NoPrice
  /\ clampPrice' = x
  /\ clampLadder' = ladder
  /\ clampResult' = clampToLadder(x, ladder)
  /\ UNCHANGED <<queueVars, call, authVars, cacheVars, builderVars, oddsVars, wagerVars, pollVars, extVars>>

\* Wager payloads.  A JavaScript number is the exact fraction num/den, NaN,
\* Infinity, or a value whose typeof is not 'number'.  A string is the
\* sequence of its characters.

MaxWagerLadder == 2
maxStake == 100000000
maxExternalIdLength == 100

Number(n, d) == [kind |-> "number", num |-> n, den |-> d]
NaN == [kind |-> "NaN", num |-> 0, den |-> 1]
Infinity == [kind |-> "Infinity", num |-> 0, den |-> 1]
NotANumber == [kind |-> "undefined", num |-> 0, den |-> 1]

\* `typeof x === 'number'`: NaN and Infinity are numbers too.
TypeofNumber(x) == x.kind \in {"number", "NaN", "Infinity"}
\* Number.isFinite(x)
IsFinite(x) == x.kind = "number"
\* `x <= k` for an integer k: false for NaN and for Infinity.
AtMost(x, k) == x.kind = "number" /\ x.num <= k * x.den
\* `x > k` for an integer k: false for NaN, true for Infinity.  The quotient
\* is compared first, so that k * x.den is never formed for a large k.
Exceeds(x, k) ==
  \/ x.kind = "Infinity"
  \/ /\ x.kind = "number"
     /\ \/ x.num \div x.den > k
        \/ x.num \div x.den = k /\ x.num % x.den > 0
\* `x < 0.01`: false for NaN and for Infinity.
BelowCent(x) ==
  /\ x.kind = "number"
  /\ x.num \div x.den <= 0
  /\ (x.num \div x.den < 0 \/ (x.num % x.den) * 100 < x.den)

\* setOddsLadder: `[...ladder].sort((a, b) => a - b)`.  Ticks are decimal
\* prices counted in hundredths.
RECURSIVE InsertTick(_, _)
InsertTick(t, sorted) ==
  IF sorted = <<>> THEN <<t>>
  ELSE IF t < Head(sorted) THEN <<t>> \o sorted
  ELSE <<Head(sorted)>> \o InsertTick(t, Tail(sorted))
RECURSIVE SortAscending(_)
SortAscending(ladder) ==
  IF ladder = <<>> THEN <<>>
  ELSE InsertTick(ladder[Len(ladder)], SortAscending(SubSeq(ladder, 1, Len(ladder) - 1)))

\* A function's outcome: the value it returned, or the Error it threw.
Returned(v) == [threw |-> FALSE, value |-> v]
Thrown == [threw |-> TRUE, value |-> NaN]

\* `if (diff < minDiff) { minDiff = diff; closest = tick; }`, with
\* diff = Math.abs(american - tick) counted in hundredths.
RECURSIVE TickScan(_, _, _, _)
TickScan(amer, rest, closest, minDiff) ==
  IF rest = <<>> THEN closest
  ELSE LET tick == Head(rest)
           diff == Abs(amer * 100 - tick)
       IN  IF diff < minDiff
             THEN TickScan(amer, Tail(rest), tick, diff)
             ELSE TickScan(amer, Tail(rest), closest, minDiff)

\* roundToValidTick: the odds unchanged while no ladder is loaded; otherwise
\* decimalToAmerican(odds) (which throws unless odds is finite and > 1), the
\* tick closest to that American value, and americanToDecimal of that tick.
roundToValidTick(odds, ladder) ==
  IF Len(ladder) = 0 THEN Returned(odds)
  ELSE IF ~IsFinite(odds) \/ AtMost(odds, 1) THEN Thrown
  ELSE LET amer == decimalToAmerican(odds)
           closest == TickScan(amer, ladder, ladder[1],
                               Abs(amer * 100 - ladder[1]))
           back == americanToDecimal(Frac(closest, 100))
       IN  IF closest = 0 THEN Thrown
           ELSE Returned(Number(back.num, back.den))

\* validateStake(stake).valid
validateStake(stake) ==
  IF ~TypeofNumber(stake) \/ stake.kind = "NaN" THEN FALSE
  ELSE IF AtMost(stake, 0) THEN FALSE
  ELSE IF Exceeds(stake, maxStake) THEN FALSE
  ELSE IF BelowCent(stake) THEN FALSE
  ELSE TRUE

\* The characters of [A-Za-z0-9_-] among those the model's strings use.
AllowedChars ==
  {"a", "e", "g", "r", "s", "t", "w", "Z", "0", "1", "7", "k", "_", "-"}

\* `id.replace(/[^A-Za-z0-9_-]/g, '_')`
Sanitize(str) ==
  [i \in 1 .. Len(str) |-> IF str[i] \in AllowedChars THEN str[i] ELSE "_"]
\* `.substring(0, n)`
Substring(str, n) == IF Len(str) <= n THEN str ELSE SubSeq(str, 1, n)

\* generateExternalId: `${prefix}_${timestamp}_${random}`, sanitized and cut.
generateExternalId(prefix, timestamp, random) ==
  Substring(Sanitize(prefix \o <<"_">> \o timestamp \o <<"_">> \o random),
            maxExternalIdLength)

\* A string-valued parameter: typeof "string", "undefined" or "number".
Str(chars) == [t |-> "string", chars |-> chars]
NoStr == [t |-> "undefined", chars |-> <<>>]
NumStr == [t |-> "number", chars |-> <<"7">>]
\* `!x` for such a parameter (the number 7 is truthy).
Falsy(x) == x.t = "undefined" \/ (x.t = "string" /\ x.chars = <<>>)

NoPayload ==
  [line_id |-> <<>>, odds |-> NaN, stake |-> NaN, external_id |-> <<>>,
   wager_strategy |-> "undefined"]
Threw == [kind |-> "threw", payload |-> NoPayload]
NoResult == [kind |-> "none", payload |-> NoPayload]

\* buildWagerPayload(params), given the loaded ladder and the timestamp and
\* random string generateExternalId would draw.
buildWagerPayload(params, ladder, timestamp, random) ==
  IF Falsy(params.line_id) \/ params.line_id.t # "string" THEN Threw
  ELSE IF ~TypeofNumber(params.odds) \/ AtMost(params.odds, 1) THEN Threw
  ELSE LET roundedOdds == roundToValidTick(params.odds, ladder)
       IN  IF roundedOdds.threw THEN Threw
           ELSE IF ~validateStake(params.stake) THEN Threw
           ELSE [kind |-> "payload",
                 payload |->
                   [line_id |-> params.line_id.chars,
                    odds |-> roundedOdds.value,
                    stake |-> params.stake,
                    external_id |->
                      IF Falsy(params.external_id)
                        THEN generateExternalId(<<"w", "a", "g", "e", "r">>,
                                                timestamp, random)
                        ELSE params.external_id.chars,
                    wager_strategy |-> params.wager_strategy]]

\* Inputs: ladders of allowed decimal prices (1.50 and 2.50) in any order.
LadderTicks == {150, 250}
WagerLadders == UNION {[1 .. n -> LadderTicks] : n \in 0 .. MaxWagerLadder}

Repeat(ch, n) == [i \in 1 .. n |-> ch]
\* Date.now() printed: 13 digits.
Timestamps == {Repeat("1", 13)}
\* Math.random().toString(36).substring(2, 10): up to 8 characters of [0-9a-z].
Randoms == {<<>>, <<"k", "7", "a", "0", "e", "1", "s", "t">>}
Prefixes == {<<"t", "e", "s", "t">>, <<"a", " ", "!">>, Repeat("a", 120)}
GeneratedIds ==
  {generateExternalId(p, ts, rnd) : p \in Prefixes, ts \in Timestamps, rnd \in Randoms}
\* external_id as the caller passes it: absent, empty, generated, or typed in.
CallerExternalIds ==
  {NoStr, Str(<<>>), Str(Repeat("a", maxExternalIdLength + 1)), Str(<<"a", "!">>)}
    \cup {Str(id) : id \in GeneratedIds}
LineIds == {Str(<<"L", "1">>), Str(<<>>), NoStr, NumStr}
OddsInputs ==
  {Number(50, 100), Number(100, 100), Number(101, 100), Number(200, 100),
   Number(260, 100), NaN, Infinity, NotANumber}
StakeInputs ==
  {Number(-1, 1), Number(0, 1), Number(1, 200), Number(1, 100), Number(10, 1),
   Number(maxStake, 1), Number(2 * maxStake + 1, 2), NaN, Infinity, NotANumber}
WagerParams ==
  [line_id : LineIds, odds : OddsInputs, stake : StakeInputs,
   external_id : CallerExternalIds, wager_strategy : {"undefined", "fillOrKill"}]
NoParamsYet ==
  [line_id |-> NoStr, odds |-> NotANumber, stake |-> NotANumber,
   external_id |-> NoStr, wager_strategy |-> "undefined"]

\* One call of buildWagerPayload is followed per behaviour.
NotBuiltYet == wagerResult.kind = "none"

\* setOddsLadder(ladder), any number of times before the wager is built.
SetOddsLadder(ladder) ==
  /\ NotBuiltYet
  /\ oddsLadder' = SortAscending(ladder)
  /\ UNCHANGED <<wagerParams, wagerResult>>
  /\ UNCHANGED <<queueVars, call, authVars, cacheVars, builderVars, oddsVars, clampVars,
                 pollVars, extVars>>

BuildWagerPayload(params, timestamp, random) ==
  /\ NotBuiltYet
  /\ wagerParams' = params
  /\ wagerResult' = buildWagerPayload(params, oddsLadder, timestamp, random)
  /\ UNCHANGED oddsLadder
  /\ UNCHANGED <<queueVars, call, authVars, cacheVars, builderVars, oddsVars, clampVars,
                 pollVars, extVars>>

\* ============================================================ useWagerPolling
\* The polling hook.  A page of wagers is named by the cursor it was fetched
\* with (0 for the first page); the venue hands out cursors 1, 2, ...  Every
\* callback that reaches fetchWagers through a timer was created in a render
\* with enabled = true and keeps that value.

MaxFetches == 4
MaxCursors == 2
maxRetries == 3

NoRefresh == -1
restVars ==
  <<queueVars, call, authVars, cacheVars, builderVars, oddsVars, clampVars, wagerVars,
    extVars>>

\* One getMyWagers call: the arguments of its fetchWagers and who made it.
Fetch(cursor, append, origin) ==
  [cursor |-> cursor, append |-> append, origin |-> origin]
NoFetch == Fetch(0, FALSE, "none")
Op(name, fetch) == [op |-> name, fetch |-> fetch]

RemoveAt(seq, i) == SubSeq(seq, 1, i - 1) \o SubSeq(seq, i + 1, Len(seq))

ShouldRetry_Inclusive(n) == n <= maxRetries
\* `if (retryCountRef.current < maxRetries)`
ShouldRetry(n) == n < maxRetries
\* `Math.pow(2, retryCountRef.current) * 1000` milliseconds, in seconds.
RetryDelay(n) == 2 ^ n

\* fetchWagers(cursor, append) up to its `await`, in a closure that captured
\* `enabled` as enabledThen: it sets isLoading and error and calls getMyWagers.
FetchWagers(enabledThen, cursor, append, origin) ==
  IF ~enabledThen
    THEN UNCHANGED <<isLoading, pollError, inflight, started>>
    ELSE /\ isLoading' = (IF append THEN isLoading ELSE TRUE)
         /\ pollError' = "null"
         /\ inflight' = Append(inflight, Fetch(cursor, append, origin))
         /\ started' = started + 1

\* The polling effect when `enabled` turns true: the initial fetch, then
\* setInterval.
Enable ==
  /\ mounted /\ ~enabled /\ started < MaxFetches
  /\ lastOp' = Op("enable", NoFetch)
  /\ enabled' = TRUE
  /\ FetchWagers(TRUE, 0, FALSE, "poll")
  /\ intervalRef' = TRUE
  /\ UNCHANGED <<mounted, wagers, lastSyncedAt, nextCursor, hasMore, retryCountRef,
                 retryTimers, cursorsIssued, refreshMark, failuresInARow,
                 olderInFlight, retriesInRun, restVars>>

\* `enabled` turns false: the effect's cleanup and its `if (!enabled)` branch
\* clear the interval.
Disable ==
  /\ mounted /\ enabled
  /\ lastOp' = Op("disable", NoFetch)
  /\ enabled' = FALSE
  /\ intervalRef' = FALSE
  /\ UNCHANGED <<mounted, hookState, retryCountRef, inflight, retryTimers, started,
                 cursorsIssued, refreshMark, failuresInARow,
                 olderInFlight, retriesInRun, restVars>>

\* The owner is torn down: both cleanups clear the interval.
Unmount ==
  /\ mounted
  /\ lastOp' = Op("unmount", NoFetch)
  /\ mounted' = FALSE
  /\ intervalRef' = FALSE
  /\ UNCHANGED <<enabled, hookState, retryCountRef, inflight, retryTimers, started,
                 cursorsIssued, refreshMark, failuresInARow,
                 olderInFlight, retriesInRun, restVars>>

\* The interval fires: `fetchWagers()`.
IntervalTick ==
  /\ intervalRef /\ started < MaxFetches
  /\ lastOp' = Op("tick", NoFetch)
  /\ FetchWagers(TRUE, 0, FALSE, "poll")
  /\ UNCHANGED <<enabled, mounted, wagers, lastSyncedAt, nextCursor, hasMore,
                 intervalRef, retryCountRef, retryTimers, cursorsIssued,
                 refreshMark, failuresInARow,
                 olderInFlight, retriesInRun, restVars>>

\* refresh(): `setNextCursor(undefined); setHasMore(true); await fetchWagers();`
RefreshWagers ==
  /\ mounted /\ started < MaxFetches
  /\ lastOp' = Op("refresh", NoFetch)
  /\ nextCursor' = 0
  /\ hasMore' = TRUE
  /\ FetchWagers(enabled, 0, FALSE, "refresh")
  /\ UNCHANGED <<enabled, mounted, wagers, lastSyncedAt, intervalRef, retryCountRef,
                 retryTimers, cursorsIssued, refreshMark, failuresInARow,
                 olderInFlight, retriesInRun, restVars>>

\* loadMore(): `if (!hasMore || !nextCursor || isLoading) return;` then
\* `await fetchWagers(nextCursor, true)`.
LoadMore ==
  /\ mounted /\ started < MaxFetches
  /\ lastOp' = Op("loadMore", NoFetch)
  /\ IF ~hasMore \/ nextCursor = 0 \/ isLoading
       THEN UNCHANGED <<isLoading, pollError, inflight, started>>
       ELSE FetchWagers(enabled, nextCursor, TRUE, "loadMore")
  /\ UNCHANGED <<enabled, mounted, wagers, lastSyncedAt, nextCursor, hasMore,
                 intervalRef, retryCountRef, retryTimers, cursorsIssued,
                 refreshMark, failuresInARow,
                 olderInFlight, retriesInRun, restVars>>

ClearWagers_StopsTimer ==
  /\ mounted
  /\ lastOp' = Op("clear", NoFetch)
  /\ wagers' = <<>>
  /\ pollError' = "null"
  /\ lastSyncedAt' = "null"
  /\ nextCursor' = 0
  /\ hasMore' = TRUE
  /\ retryCountRef' = 0
  /\ retriesInRun' = 0
  /\ intervalRef' = FALSE
  /\ UNCHANGED <<enabled, mounted, isLoading, inflight, retryTimers,
                 started, cursorsIssued, refreshMark, failuresInARow,
                 olderInFlight, restVars>>
\* clear()
ClearWagers ==
  /\ mounted
  /\ lastOp' = Op("clear", NoFetch)
  /\ wagers' = <<>>
  /\ pollError' = "null"
  /\ lastSyncedAt' = "null"
  /\ nextCursor' = 0
  /\ hasMore' = TRUE
  /\ retryCountRef' = 0
  /\ retriesInRun' = 0
  /\ UNCHANGED <<enabled, mounted, isLoading, intervalRef, inflight, retryTimers,
                 started, cursorsIssued, refreshMark, failuresInARow,
                 olderInFlight, restVars>>

\* getMyWagers resolves for the i-th call in flight, with next_cursor `next`
\* (0: absent): the rest of fetchWagers' try block and its finally.
GetMyWagersResolve(i, next) ==
  /\ i \in 1 .. Len(inflight)
  /\ lastOp' = Op("resolve", inflight[i])
  /\ next = 0 \/ (next = cursorsIssued + 1 /\ next <= MaxCursors)
  /\ wagers' = (IF inflight[i].append THEN Append(wagers, inflight[i].cursor)
                                      ELSE <<inflight[i].cursor>>)
  /\ nextCursor' = next
  /\ hasMore' = (next # 0)
  /\ lastSyncedAt' = "set"
  /\ retryCountRef' = 0
  /\ isLoading' = (IF inflight[i].append THEN isLoading ELSE FALSE)
  /\ inflight' = RemoveAt(inflight, i)
  /\ cursorsIssued' = (IF next = 0 THEN cursorsIssued ELSE next)
  /\ refreshMark' = (IF inflight[i].origin = "refresh" THEN cursorsIssued
                                                       ELSE refreshMark)
  /\ failuresInARow' = 0
  /\ retriesInRun' = 0
  /\ olderInFlight' = (IF i <= olderInFlight THEN olderInFlight - 1
                        ELSE IF inflight[i].append THEN olderInFlight ELSE i - 1)
  /\ UNCHANGED <<enabled, mounted, pollError, intervalRef, retryTimers, started, restVars>>

\* getMyWagers rejects for the i-th call in flight: the catch block and the
\* finally.
GetMyWagersReject(i) ==
  /\ i \in 1 .. Len(inflight)
  /\ lastOp' = Op("reject", inflight[i])
  /\ pollError' = "message"
  /\ retryCountRef' = retryCountRef + 1
  /\ retryTimers' =
       (IF ShouldRetry(retryCountRef + 1)
          THEN Append(retryTimers,
                      [cursor |-> inflight[i].cursor, append |-> inflight[i].append,
                       origin |-> inflight[i].origin,
                       delay |-> RetryDelay(retryCountRef + 1)])
          ELSE retryTimers)
  /\ isLoading' = (IF inflight[i].append THEN isLoading ELSE FALSE)
  /\ inflight' = RemoveAt(inflight, i)
  /\ failuresInARow' = failuresInARow + 1
  /\ retriesInRun' = retriesInRun + (Len(retryTimers') - Len(retryTimers))
  /\ olderInFlight' = (IF i <= olderInFlight THEN olderInFlight - 1 ELSE olderInFlight)
  /\ UNCHANGED <<enabled, mounted, wagers, lastSyncedAt, nextCursor, hasMore,
                 intervalRef, started, cursorsIssued, refreshMark, restVars>>

\* A retry timer fires: `fetchWagers(cursor, append)` of the closure that
\* scheduled it.  Nothing ever clears these timers.
RetryTimerFire(k) ==
  /\ k \in 1 .. Len(retryTimers) /\ started < MaxFetches
  /\ lastOp' = Op("retry", Fetch(retryTimers[k].cursor, retryTimers[k].append, retryTimers[k].origin))
  /\ retryTimers' = RemoveAt(retryTimers, k)
  /\ FetchWagers(TRUE, retryTimers[k].cursor, retryTimers[k].append,
                 retryTimers[k].origin)
  /\ UNCHANGED <<enabled, mounted, wagers, lastSyncedAt, nextCursor, hasMore,
                 intervalRef, retryCountRef, cursorsIssued, refreshMark,
                 failuresInARow,
                 olderInFlight, retriesInRun, restVars>>

\* ============================================================ RequestQueue

\* process(): `if (this.running >= this.maxConcurrency || this.queue.length === 0) return;`
CanStart_TooMany(n, q) == ~(n > maxConcurrency \/ Len(q) = 0)
CanStart(n, q) == ~(n >= maxConcurrency \/ Len(q) = 0)

\* process(): `const task = this.queue.shift()!` -- <<task, rest of the queue>>
Shift_Pop(q) == <<q[Len(q)], SubSeq(q, 1, Len(q) - 1)>>
Shift(q) == <<Head(q), Tail(q)>>

\* process(), called with queue q and running n.  It starts at most one task
\* that stays in flight; a task that throws before its first await (fails)
\* settles at once, the finally block gives its slot back and calls process()
\* again.  Result: the queue and counter left, the task in flight (0: none),
\* and the tasks that were started and rejected on the spot.
RECURSIVE process(_, _, _, _)
process(q, n, fails, rej) ==
  IF ~CanStart(n, q)
  THEN [queue |-> q, running |-> n, started |-> 0, rejected |-> rej, order |-> <<>>]
  ELSE LET task == Shift(q)[1]
           rest == Shift(q)[2]
       IN IF fails
          THEN LET r == process(rest, n, fails, rej \cup {task})
               IN [r EXCEPT !.order = <<task>> \o @]
          ELSE [queue |-> rest, running |-> n + 1, started |-> task,
                rejected |-> rej, order |-> <<task>>]

\* ids are handed out in call order: the next add() is for the lowest unused id
NextNew(S) == {t \in S : pc[t] = "new" /\ \A u \in S : u < t => pc[u] # "new"}

\* RequestQueue.add(fn) for an opaque task fn that awaits before it settles
Add(t) ==
  /\ t \in NextNew(TaskIds)
  /\ LET p == process(Append(queue, t), running, FALSE, {})
     IN /\ queue' = p.queue
        /\ running' = p.running
        /\ startOrder' = startOrder \o p.order
        /\ pc' = [u \in Ids |-> IF u = p.started THEN "running"
                                 ELSE IF u = t THEN "queued" ELSE pc[u]]
  /\ UNCHANGED <<call, authVars, cacheVars, builderVars, oddsVars, clampVars, wagerVars, pollVars, extVars>>

\* the task's promise settles: resolve/reject, then `finally { running--; process() }`
Settle(t, how) ==
  /\ pc[t] = "running"
  /\ LET p == process(queue, running - 1, FALSE, {})
     IN /\ queue' = p.queue
        /\ running' = p.running
        /\ startOrder' = startOrder \o p.order
        /\ pc' = [u \in Ids |-> IF u = p.started THEN "running"
                                 ELSE IF u = t THEN how ELSE pc[u]]
  /\ UNCHANGED <<call, authVars, cacheVars, builderVars, oddsVars, clampVars, wagerVars, pollVars, extVars>>

TaskResolve(t) == Settle(t, "resolved")
TaskReject(t) == Settle(t, "rejected")

\* ============================================================= ProphetXAPI

\* X-RateLimit-Remaining header of a response: absent, or its parseInt value
NoHeader == -1
RateHeaders == {NoHeader, 1, initialRateLimit}

\* updateRateLimit(response)
updateRateLimit(rl, hdr) == IF hdr # NoHeader THEN hdr ELSE rl

\* startProactiveRefresh(): arms one more timer when the refresh time lies ahead
\* (sched: timeUntilRefresh > 0); an armed timer is never cleared
startProactiveRefresh(n, sched) == IF sched THEN n + 1 ELSE n

\* call u with its position, as one record
Local(u) ==
  [pc |-> pc[u], attempt |-> call[u].attempt, reqToken |-> call[u].reqToken,
   fetches |-> call[u].fetches, lastOutcome |-> call[u].lastOutcome,
   result |-> call[u].result]

\* makeRequest, `fetch(EDGE_FUNCTION_URL, ... JSON.stringify(requestBody))`
IssueFetch(l) == [l EXCEPT !.pc = "fetching", !.fetches = @ + 1, !.lastOutcome = "none"]

\* makeRequest, from the admission of the task to its first await that waits:
\* `await this.checkRateLimit()` sleeps when the quota is low, otherwise
\* requestBody takes the current token and the first attempt is fetched
Begin(l, rl, tok) ==
  IF rl < lowWaterMark
  THEN [l EXCEPT !.pc = "ratewait"]
  ELSE IssueFetch([l EXCEPT !.attempt = 0, !.reqToken = tok])

\* makeRequest: `if (!this.accessToken) throw new Error('Not authenticated...')`
NotAuthenticated(l) ==
  [l EXCEPT !.pc = "rejected", !.result = Err("Not authenticated", "none")]

\* the task settles: resolve(result) / reject(error); its locals are gone
Finish(l, res) ==
  [l EXCEPT !.pc = IF res.kind = "resolved" THEN "resolved" ELSE "rejected",
            !.result = res, !.attempt = 0, !.reqToken = NoToken]

\* makeRequest, top of the loop: `while (attempt < maxAttempts) { fetch ... }`
\* and after it `throw new Error('Max retry attempts exceeded')`
LoopTest_OffByOne(l) ==
  IF l.attempt <= maxAttempts
  THEN IssueFetch(l)
  ELSE Finish(l, Err("Max retry attempts exceeded", "none"))
LoopTest(l) ==
  IF l.attempt < maxAttempts
  THEN IssueFetch(l)
  ELSE Finish(l, Err("Max retry attempts exceeded", "none"))

\* makeRequest, `catch (error) { if (attempt === maxAttempts - 1) throw error;
\* ... await delay ...; attempt++ }`: the call rethrows or sleeps
Catch(l, error) ==
  IF l.attempt = maxAttempts - 1
  THEN Finish(l, error)
  ELSE [l EXCEPT !.pc = "backoff"]

\* `throw new Error('API request failed: ${response.status} ...')`
ApiFailed(status) == Err("API request failed", status)
\* `throw new Error('Authentication expired and refresh failed')`
AuthExpired == Err("Authentication expired and refresh failed", "none")

\* `finally { this.running--; this.process(); }`: a settled task gives its slot back
Release_Keeps(n, settled) == n
Release(n, settled) == IF settled THEN n - 1 ELSE n

\* the variables of the queue and of all calls after call r moved to `new`,
\* where a settled call gives its slot back (`finally { running--; process() }`)
\* and process() may start the next task, which begins with quota rl, token tok
Step(r, new, q, rl, tok) ==
  LET settled == new.pc \in {"resolved", "rejected"} /\ pc[r] \notin {"new", "queued"}
      p == process(q, Release(running, settled), tok = NoToken, {})
      val(u) == IF u = p.started THEN Begin(IF u = r THEN new ELSE Local(u), rl, tok)
                ELSE IF u \in p.rejected
                     THEN NotAuthenticated(IF u = r THEN new ELSE Local(u))
                ELSE IF u = r THEN new
                ELSE Local(u)
  IN /\ queue' = p.queue
     /\ running' = p.running
     /\ startOrder' = startOrder \o p.order
     /\ pc' = [u \in Ids |-> IF u \in ReqIds THEN val(u).pc ELSE pc[u]]
     /\ call' = [u \in ReqIds |->
                   [attempt |-> val(u).attempt, reqToken |-> val(u).reqToken,
                    fetches |-> val(u).fetches, lastOutcome |-> val(u).lastOutcome,
                    result |-> val(u).result]]

\* authenticate(): the login call returned a token pair
Authenticate(hdr, sched) ==
  /\ accessToken < MaxTok
  /\ accessToken' = accessToken + 1
  /\ refreshToken' = TRUE
  /\ rateLimitRemaining' = updateRateLimit(rateLimitRemaining, hdr)
  /\ timers' = startProactiveRefresh(timers, sched)
  /\ staleToken' = NoToken
  /\ UNCHANGED <<queueVars, call, refreshLock, proactive, cacheVars, builderVars, oddsVars, clampVars, wagerVars, pollVars, extVars>>

\* makeRequest(endpoint): requestQueue.add(task) and the process() it calls
MakeRequest(r) ==
  /\ r \in NextNew(ReqIds)
  /\ Step(r, [Local(r) EXCEPT !.pc = "queued"], Append(queue, r),
          rateLimitRemaining, accessToken)
  /\ UNCHANGED <<authVars, cacheVars, builderVars, oddsVars, clampVars, wagerVars, pollVars, extVars>>

\* checkRateLimit(): the 1 second sleep is over
RateWaitDone(r) ==
  /\ pc[r] = "ratewait"
  /\ Step(r, IssueFetch([Local(r) EXCEPT !.attempt = 0, !.reqToken = accessToken]),
          queue, rateLimitRemaining, accessToken)
  /\ UNCHANGED <<authVars, cacheVars, builderVars, oddsVars, clampVars, wagerVars, pollVars, extVars>>

\* refreshAccessToken() called from makeRequest's 401 branch: it throws at once
\* without a refresh token, otherwise the call awaits the /auth/refresh fetch
CallRefresh(l, rt) ==
  IF ~rt THEN Catch(l, AuthExpired) ELSE [l EXCEPT !.pc = "refreshing"]

\* makeRequest: what the call does with the outcome of its fetch
OnResponse(l, outcome, lock, rt) ==
  LET m == [l EXCEPT !.lastOutcome = outcome]
  IN CASE outcome = "neterr" -> Catch(m, Err("Network error", "neterr"))
       [] outcome = "429" -> [m EXCEPT !.pc = "backoff"]
       [] outcome = "401" /\ ~lock -> CallRefresh(m, rt)
       [] outcome = "200" -> Finish(m, Resolved)
       [] OTHER -> Catch(m, ApiFailed(outcome))

Outcomes == {"200", "429", "401", "400", "500", "neterr"}

\* the fetch of call r completes with an upstream outcome
FetchResponse(r, outcome, hdr) ==
  /\ pc[r] = "fetching"
  /\ LET rl == IF outcome = "neterr" THEN rateLimitRemaining
               ELSE updateRateLimit(rateLimitRemaining, hdr)
     IN /\ rateLimitRemaining' = rl
        /\ Step(r, OnResponse(Local(r), outcome, refreshLock, refreshToken), queue, rl,
                accessToken)
  /\ staleToken' = IF outcome = "401" /\ ~refreshLock /\ ~refreshToken
                   THEN accessToken ELSE staleToken
  /\ UNCHANGED <<accessToken, refreshToken, refreshLock, timers, proactive, cacheVars, builderVars, oddsVars, clampVars, wagerVars, pollVars, extVars>>

\* the backoff sleep (after a 429 or in the catch block) is over: attempt++
BackoffDone(r) ==
  /\ pc[r] = "backoff"
  /\ Step(r, LoopTest([Local(r) EXCEPT !.attempt = @ + 1]), queue,
          rateLimitRemaining, accessToken)
  /\ UNCHANGED <<authVars, cacheVars, builderVars, oddsVars, clampVars, wagerVars, pollVars, extVars>>

\* makeRequest after `await this.refreshAccessToken()`
AfterRefresh(l, ok, tok) ==
  IF ok
  THEN LoopTest([l EXCEPT !.reqToken = tok, !.attempt = @ + 1])
  ELSE Catch(l, AuthExpired)

\* the /auth/refresh fetch of call r completes
RefreshDone(r, ok, sched) ==
  /\ pc[r] = "refreshing"
  /\ ok => accessToken < MaxTok
  /\ accessToken' = IF ok THEN accessToken + 1 ELSE accessToken
  /\ timers' = IF ok THEN startProactiveRefresh(timers, sched) ELSE timers
  /\ Step(r, AfterRefresh(Local(r), ok, accessToken'), queue, rateLimitRemaining,
          accessToken')
  /\ staleToken' = IF ok THEN staleToken ELSE accessToken
  /\ UNCHANGED <<refreshToken, refreshLock, rateLimitRemaining, proactive, cacheVars, builderVars, oddsVars, clampVars, wagerVars, pollVars, extVars>>

\* proactiveRefreshToken(): `if (this.refreshLock || !this.refreshToken) return;`
ProactiveGuard(lock, rt) == ~(lock \/ ~rt)

\* a proactive-refresh timer fires
ProactiveFire ==
  /\ timers > 0
  /\ timers' = timers - 1
  /\ IF ProactiveGuard(refreshLock, refreshToken)
     THEN refreshLock' = TRUE /\ proactive' = "refreshing"
     ELSE UNCHANGED <<refreshLock, proactive>>
  /\ UNCHANGED <<queueVars, call, accessToken, refreshToken, rateLimitRemaining,
                 staleToken, cacheVars, builderVars, oddsVars, clampVars, wagerVars, pollVars, extVars>>

\* the /auth/refresh fetch of the proactive refresh completes
ProactiveDone(ok, sched) ==
  /\ proactive = "refreshing"
  /\ ok => accessToken < MaxTok
  /\ accessToken' = IF ok THEN accessToken + 1 ELSE accessToken
  /\ timers' = IF ok THEN startProactiveRefresh(timers, sched) ELSE timers
  /\ refreshLock' = FALSE
  /\ proactive' = "idle"
  /\ staleToken' = IF ok THEN staleToken ELSE accessToken
  /\ UNCHANGED <<queueVars, call, refreshToken, rateLimitRemaining, cacheVars, builderVars, oddsVars, clampVars, wagerVars, pollVars, extVars>>

\* ======================================================= enrichWagerData

\* a WagerHistory row as the venue reported it: line_id a string or undefined,
\* odds and stake numbers or undefined
WagerRow(line_id, odds, stake) == [line_id |-> line_id, odds |-> odds, stake |-> stake]
NoWager == WagerRow(Undef, NotANumber, NotANumber)

\* the displayData of a row; threw: enrichWagerData ended by an exception
DisplayData(wagerType, wagerMarket, selectionName, formattedOdds, formattedStake) ==
  [threw |-> FALSE, wagerType |-> wagerType, wagerMarket |-> wagerMarket,
   selectionName |-> selectionName, formattedOdds |-> formattedOdds,
   formattedStake |-> formattedStake]
EnrichThrew == [DisplayData("", "", "", "", "") EXCEPT !.threw = TRUE]
NotEnriched == DisplayData("", "", "", "", "")

\* findMarketInfo(selection, treeData) with treeData undefined:
\* `if (!treeData) return { marketName: null, eventName: null }`
findMarketInfo(selection) == [marketName |-> Null, eventName |-> Null]

\* decimalToAmerican(d) throws: `!Number.isFinite(d) || d <= 1`
InvalidDecimal(d) == ~IsFinite(d) \/ AtMost(d, 1)

\* `americanOdds > 0 ? `+${americanOdds}` : `${americanOdds}``
FormatAmerican(n) == IF n > 0 THEN "+" \o ToString(n) ELSE ToString(n)

\* `wager.stake.toString()` of a whole number, NaN or Infinity
StakeToString(stake) ==
  IF stake.kind = "number" THEN ToString(stake.num \div stake.den) ELSE stake.kind

\* enrichWagerData(wager, undefined) on index maps c (cache) and ix (line_idIndex)
enrichWagerData(c, ix, w) ==
  LET selection == findSelection(c, ix, [NoParams EXCEPT !.line_id = w.line_id])
      found == selection # NoRecord
      marketInfo == findMarketInfo(selection)
      wagerType == IF found THEN OrElse(marketInfo.marketName, "Unknown Market")
                   ELSE "Unknown Market"
      wagerMarket == IF found THEN OrElse(marketInfo.eventName, "Unknown Event")
                     ELSE "Line ID: " \o w.line_id
      selectionName == IF found THEN OrElse(selection.name, "Unknown Selection")
                       ELSE "Unknown Selection"
  IN IF InvalidDecimal(w.odds) THEN EnrichThrew
     ELSE IF w.stake.kind = "undefined" THEN EnrichThrew
     ELSE DisplayData(wagerType, wagerMarket, selectionName,
                      FormatAmerican(decimalToAmerican(w.odds)),
                      StakeToString(w.stake))

\* rows the venue may report: a line_id of the catalogue, one of no catalogue,
\* or none; odds of a settled or voided order are not always above 1
RowLineIds == {"La", "Lz", Undef}
RowOdds == {Number(0, 1), Number(1, 1), Number(3, 2), Number(5, 2), NaN, NotANumber}
RowStakes == {Number(10, 1), NotANumber}
WagerRows == {WagerRow(l, o, s) : l \in RowLineIds, o \in RowOdds, s \in RowStakes}

\* useEnhancedWagers: one row of rawWagers is enriched
EnrichWager(w) ==
  /\ wager' = w
  /\ displayData' = enrichWagerData(cache, line_idIndex, w)
  /\ UNCHANGED <<queueVars, call, authVars, cacheVars, builderVars, oddsVars, clampVars,
                 wagerVars, pollVars, proxyVars, pagesVars>>

\* ================================================ prophetx-proxy (serve)

\* `raw.slice(0, 500)`
bodySliceLength == 500

\* the request: its method, and whether `await req.json()` parses
Request(method, parses) == [method |-> method, parses |-> parses]
NoRequest == Request("none", FALSE)

\* the venue's answer to the fetch: status, content-type header ("" when
\* absent), X-RateLimit-Remaining header ("" when absent), the body text as
\* characters, hasBody FALSE for a null body; threw: fetch rejected
Upstream(status, contentType, rate, hasBody, text) ==
  [threw |-> FALSE, status |-> status, contentType |-> contentType, rate |-> rate,
   hasBody |-> hasBody, text |-> text]
FetchRejected == [Upstream(0, "", "", FALSE, <<>>) EXCEPT !.threw = TRUE]
NoUpstream == Upstream(0, "", "", FALSE, <<>>)

\* the handler's Response: status, the body (forwarded text, or the object
\* given to JSON.stringify named by its `error`), X-RateLimit-Remaining
TextResponse(status, text, rate) ==
  [status |-> status, kind |-> "text", text |-> text, error |-> "", rate |-> rate]
ErrorResponse(status, error, text) ==
  [status |-> status, kind |-> "object", text |-> text, error |-> error, rate |-> ""]
NoResponse == TextResponse(0, <<>>, "")

\* `response.ok`
Ok(status) == status >= 200 /\ status <= 299

\* `contentType.includes('application/json')`
IncludesJson(contentType) ==
  contentType \in {"application/json", "application/json; charset=utf-8"}

\* `await response.text()`: the text of the body; a body that was read
\* already makes it reject with a TypeError, a null body reads as ''
ReadText(resp, bodyUsed) ==
  IF resp.hasBody /\ bodyUsed THEN [threw |-> TRUE, text |-> <<>>]
  ELSE [threw |-> FALSE, text |-> resp.text]

\* JSON.stringify(JSON.parse(raw)): the text without its insignificant
\* white space; JSON.parse throws on any other text
Compact(raw) ==
  LET significant(ch) == ch # " "
  IN SelectSeq(raw, significant)
JsonValues == {<<"{", "}">>, <<"1">>}
ParsesAsJson(raw) == Compact(raw) \in JsonValues

\* the handler, from `await fetch(...)` to the Response it returns
serve(req, resp) ==
  IF req.method = "OPTIONS" THEN TextResponse(200, <<>>, "")
  ELSE IF ~req.parses \/ resp.threw THEN ErrorResponse(500, "error.message", <<>>)
  ELSE LET raw == ReadText(resp, FALSE).text
       IN IF ~IncludesJson(resp.contentType)
          THEN ErrorResponse(resp.status, "API returned non-JSON",
                             Substring(raw, bodySliceLength))
          ELSE IF ~Ok(resp.status)
          THEN LET text == ReadText(resp, TRUE)
               IN IF text.threw THEN ErrorResponse(500, "error.message", <<>>)
                  ELSE TextResponse(resp.status, text.text, "")
          ELSE IF ~ParsesAsJson(raw)
          THEN ErrorResponse(500, "Failed to parse JSON response",
                             Substring(raw, bodySliceLength))
          ELSE TextResponse(200, Compact(raw),
                            IF resp.rate = "" THEN "100" ELSE resp.rate)

\* what the venue may answer
Statuses == {200, 302, 400, 401, 429, 500}
ContentTypes == {"", "text/html", "application/json", "application/json; charset=utf-8"}
BodyTexts == {<<>>, <<"{", " ", "}">>, <<"1">>, <<"<", "h", ">">>}
Upstreams ==
  {FetchRejected} \cup
  {Upstream(st, ct, rate, text # <<>>, text) :
     st \in Statuses, ct \in ContentTypes, rate \in {"", "7"}, text \in BodyTexts}
Requests == {Request("OPTIONS", TRUE), Request("POST", TRUE), Request("POST", FALSE)}

\* one invocation of the edge function
Serve(req, resp) ==
  /\ proxyRequest' = req
  /\ upstream' = IF req.method = "OPTIONS" \/ ~req.parses THEN NoUpstream ELSE resp
  /\ proxyResponse' = serve(req, resp)
  /\ UNCHANGED <<queueVars, call, authVars, cacheVars, builderVars, oddsVars, clampVars,
                 wagerVars, pollVars, enrichVars, pagesVars>>

\* ================================================ ProphetXAPI.getMyWagers

\* requests one getMyWagers call may make in the model
MaxPages == 3

\* a response of /v2/mm/get_wager_histories: `data` may be missing, and
\* next_cursor is undefined (absent), '' or a cursor
Page(hasData, wgs, next_cursor) ==
  [hasData |-> hasData, wagers |-> wgs, next_cursor |-> next_cursor]

\* `response.data?.wagers || []` and `response.data?.next_cursor`
PageWagers(response) == IF response.hasData THEN response.wagers ELSE <<>>
PageNextCursor(response) == IF response.hasData THEN response.next_cursor ELSE Undef

\* `if (cursor)` and `while (cursor)`: undefined and '' are falsy
Truthy_Defined(cursor) == cursor # Undef
Truthy(cursor) == cursor \notin {Undef, Null, ""}

\* the promise of getMyWagers: pending, resolved with `all`, or rejected
PagesPending == [kind |-> "pending", value |-> <<>>]
PagesResolved(value) == [kind |-> "resolved", value |-> value]
PagesRejected == [kind |-> "rejected", value |-> <<>>]
NoPages == PagesPending

\* what the venue may answer with
PageCursors == {Undef, "", "c1", "c2"}
PageContents == {<<>>, <<"w1">>, <<"w2", "w3">>}
Pages ==
  {Page(TRUE, wgs, c) : wgs \in PageContents, c \in PageCursors}
    \cup {Page(FALSE, <<>>, Undef)}

\* getMyWagers(filters) up to its first await: `all = []`, cursor undefined,
\* the first request carries no cursor parameter
GetMyWagers ==
  /\ pagesPc = "idle"
  /\ pagesPc' = "awaiting"
  /\ allWagers' = <<>>
  /\ pageCursor' = Undef
  /\ pageRequests' = <<Undef>>
  /\ pagesResult' = PagesPending
  /\ UNCHANGED <<pageResponses, queueVars, call, authVars, cacheVars, builderVars,
                 oddsVars, clampVars, wagerVars, pollVars, enrichVars, proxyVars>>

\* makeRequest resolved: `all.push(...)`, `cursor = ...next_cursor`, then
\* `while (cursor)` either makes the next request (`if (cursor) params.cursor =
\* cursor`) or ends the loop and `return all`
PageResolve(response) ==
  /\ pagesPc = "awaiting"
  /\ Truthy(PageNextCursor(response)) => Len(pageRequests) < MaxPages
  /\ pageResponses' = Append(pageResponses, response)
  /\ allWagers' = allWagers \o PageWagers(response)
  /\ pageCursor' = PageNextCursor(response)
  /\ IF Truthy(pageCursor')
     THEN /\ pageRequests' = Append(pageRequests, pageCursor')
          /\ UNCHANGED <<pagesPc, pagesResult>>
     ELSE /\ pagesPc' = "returned"
          /\ pagesResult' = PagesResolved(allWagers')
          /\ UNCHANGED pageRequests
  /\ UNCHANGED <<queueVars, call, authVars, cacheVars, builderVars, oddsVars, clampVars,
                 wagerVars, pollVars, enrichVars, proxyVars>>

\* makeRequest rejected: `throw this.enhanceError(error)`
PageReject ==
  /\ pagesPc = "awaiting"
  /\ pagesPc' = "rejected"
  /\ pagesResult' = PagesRejected
  /\ UNCHANGED <<allWagers, pageCursor, pageRequests, pageResponses, queueVars, call,
                 authVars, cacheVars, builderVars, oddsVars, clampVars, wagerVars,
                 pollVars, enrichVars, proxyVars>>

Init ==
  /\ queue = <<>>
  /\ running = 0
  /\ pc = [t \in Ids |-> "new"]
  /\ startOrder = <<>>
  /\ call = [r \in ReqIds |-> NewCall]
  /\ accessToken = NoToken
  /\ refreshToken = FALSE
  /\ refreshLock = FALSE
  /\ rateLimitRemaining = initialRateLimit
  /\ timers = 0
  /\ proactive = "idle"
  /\ staleToken = NoToken
  /\ cache = <<>>
  /\ line_idIndex = <<>>
  /\ lastUpdated = 0
  /\ builds = 0
  /\ tree = <<>>
  /\ threw = FALSE
  /\ rawMarket = NoMarket
  /\ normalizedGroups = <<>>
  /\ marketNode = NullNode
  /\ catalog = <<>>
  /\ hierarchy = <<>>
  /\ american = 0
  /\ decimal = NoDecimal
  /\ roundTrip = 0
  /\ converted = "none"
  /\ clampPrice = 0
  /\ clampLadder = NoLadder
  /\ clampResult = NoPrice
  /\ oddsLadder = <<>>
  /\ wagerParams = NoParamsYet
  /\ wagerResult = NoResult
  /\ enabled = FALSE
  /\ mounted = TRUE
  /\ wagers = <<>>
  /\ isLoading = FALSE
  /\ pollError = "null"
  /\ lastSyncedAt = "null"
  /\ nextCursor = 0
  /\ hasMore = TRUE
  /\ intervalRef = FALSE
  /\ retryCountRef = 0
  /\ inflight = <<>>
  /\ retryTimers = <<>>
  /\ started = 0
  /\ cursorsIssued = 0
  /\ refreshMark = NoRefresh
  /\ failuresInARow = 0
  /\ retriesInRun = 0
  /\ olderInFlight = 0
  /\ lastOp = Op("none", NoFetch)
  /\ wager = NoWager
  /\ displayData = NotEnriched
  /\ proxyRequest = NoRequest
  /\ upstream = NoUpstream
  /\ proxyResponse = NoResponse
  /\ pagesPc = "idle"
  /\ allWagers = <<>>
  /\ pageCursor = Undef
  /\ pageRequests = <<>>
  /\ pageResponses = <<>>
  /\ pagesResult = NoPages

NextQueue ==
  \/ \E t \in TaskIds : Add(t)
  \/ \E t \in TaskIds : TaskResolve(t)
  \/ \E t \in TaskIds : TaskReject(t)

SpecQueue == Init /\ [][NextQueue]_vars

Next ==
  \/ \E hdr \in RateHeaders, sched \in BOOLEAN : Authenticate(hdr, sched)
  \/ \E r \in 1..NumReq : MakeRequest(r)
  \/ \E r \in ReqIds : RateWaitDone(r)
  \/ \E r \in ReqIds, o \in Outcomes, hdr \in RateHeaders : FetchResponse(r, o, hdr)
  \/ \E r \in ReqIds : BackoffDone(r)
  \/ \E r \in ReqIds, ok \in BOOLEAN, sched \in BOOLEAN : RefreshDone(r, ok, sched)
  \/ ProactiveFire
  \/ \E ok \in BOOLEAN, sched \in BOOLEAN : ProactiveDone(ok, sched)

Spec == Init /\ [][Next]_vars

\* the selection cache alone, rebuilt and cleared
NextCache ==
  \/ \E treeData \in TreeInputs : BuildFromTreeData(treeData)
  \/ Clear

SpecCache == Init /\ [][NextCache]_vars

\* the hierarchy builder alone: a whole build, or the processing of one market
\* buildHierarchy's processing of one market, over every payload shape.
NextBuilder == \E m \in RawMarkets : ProcessMarket(m)

SpecBuilder == Init /\ [][NextBuilder]_vars

\* A whole run of buildHierarchy, over catalogs with failing nodes.
NextHierarchy == \E c \in FaultyCatalogs : BuildHierarchy(c)

SpecHierarchy == Init /\ [][NextHierarchy]_vars

NextOdds == \E a \in AmericanOdds : ConvertOdds(a)

SpecOdds == Init /\ [][NextOdds]_vars

NextClamp == \E x \in Prices, ladder \in Ladders : ClampToLadder(x, ladder)

SpecClamp == Init /\ [][NextClamp]_vars

NextWager ==
  \/ \E ladder \in WagerLadders : SetOddsLadder(ladder)
  \/ /\ NotBuiltYet
     /\ \E params \in WagerParams, ts \in Timestamps, rnd \in Randoms :
          BuildWagerPayload(params, ts, rnd)

SpecWager == Init /\ [][NextWager]_vars

NextPolling ==
  \/ Enable
  \/ Disable
  \/ Unmount
  \/ IntervalTick
  \/ RefreshWagers
  \/ LoadMore
  \/ ClearWagers
  \/ \E i \in 1 .. MaxFetches, next \in 0 .. MaxCursors : GetMyWagersResolve(i, next)
  \/ \E i \in 1 .. MaxFetches : GetMyWagersReject(i)
  \/ \E k \in 1 .. MaxFetches : RetryTimerFire(k)

SpecPolling == Init /\ [][NextPolling]_vars

\* ------------------------------------------------------------ claims C1, C10

InFlight == {t \in Ids : pc[t] \notin {"new", "queued", "resolved", "rejected"}}

\* C1: at every moment at most maxConcurrency (3) queue tasks have started and
\* not yet settled, and a task only starts when fewer than 3 were in flight or
\* when a task in flight settles in the same step.
C1_BoundedConcurrency ==
  /\ [](Cardinality(InFlight) <= maxConcurrency)
  /\ [][\A t \in Ids :
          (pc[t] # "running" /\ pc'[t] = "running")
            => \/ Cardinality(InFlight) < maxConcurrency
               \/ \E u \in InFlight : pc'[u] \in {"resolved", "rejected"}]_vars

\* C1 witness: three tasks are in flight and a fourth one, added meanwhile, waits
C1_Witness == Cardinality(InFlight) = maxConcurrency /\ Len(queue) > 0

\* C10: tasks are admitted in FIFO order: the tasks started so far are exactly
\* the first ones added, in the order of their add() calls (ids are call order).
C10_FifoAdmission ==
  /\ startOrder = [i \in 1..Len(startOrder) |-> i]
  /\ \A a \in Ids, b \in Ids :
       (a < b /\ pc[b] \notin {"new", "queued"}) => pc[a] \notin {"new", "queued"}

\* C10 witness: two tasks waited in the queue together and were admitted in
\* call order, and a later task settled while an earlier one is still in flight
C10_Witness ==
  /\ Len(startOrder) = NumTasks
  /\ \E a \in Ids, b \in Ids :
       a < b /\ pc[a] = "running" /\ pc[b] \in {"resolved", "rejected"}

\* ------------------------------------------------- claims C2, C6, C7, C8, C9

Refreshing == {r \in ReqIds : pc[r] = "refreshing"}

\* C2: of the makeRequest calls in flight that got a 401 for the same access
\* token, at most one is inside refreshAccessToken: the refresh for that token
\* is invoked once, never twice at the same time.
C2_SingleFlightRefresh ==
  \A a \in Refreshing, b \in Refreshing :
    call[a].reqToken = call[b].reqToken => a = b

\* C6: when the refresh started by a call's 401 completes, then on success the
\* next attempt carries the refreshed token, and on failure the call rejects
\* with the authentication error at once, with no further attempt or refresh.
C6_RefreshOnceThenRetryOrFail ==
  [][\A r \in ReqIds :
       (pc[r] = "refreshing" /\ pc'[r] # "refreshing")
         => IF accessToken' # accessToken
            THEN pc'[r] = "fetching" => call'[r].reqToken = accessToken'
            ELSE /\ pc'[r] = "rejected"
                 /\ call'[r].result = AuthExpired
                 /\ call'[r].fetches = call[r].fetches]_vars

\* C7: a makeRequest call issues at most maxAttempts (3) fetches of its
\* endpoint, every fetch after the first was preceded by an increment of the
\* attempt counter, and a call that has used its 3 fetches is settled as soon as
\* it stops waiting for the third outcome.
C7_AtMostThreeFetches ==
  \A r \in ReqIds :
    /\ call[r].fetches <= maxAttempts
    /\ pc[r] \in {"fetching", "backoff", "refreshing"}
         => call[r].fetches = call[r].attempt + 1
    /\ pc[r] \in {"resolved", "rejected"} => call[r].result # Pending

\* C7 witness: a call was rejected after its third fetch
C7_Witness ==
  \E r \in ReqIds : pc[r] = "rejected" /\ call[r].fetches = maxAttempts

\* C8: a call rejected after its 3 attempts were used up rejects with the error
\* of its last attempt, carrying that attempt's status, whether the last
\* attempt was rate limited (429) or failed with another transient failure.
C8_LastErrorAfterExhaustion ==
  \A r \in ReqIds :
    (/\ pc[r] = "rejected"
     /\ call[r].fetches = maxAttempts
     /\ call[r].lastOutcome \in {"429", "400", "500", "neterr"})
      => call[r].result.status = call[r].lastOutcome

\* C9: a validation failure (a 400 answer of the venue) is never retried: the
\* call rejects with that error right after the attempt that received it.
C9_ValidationNeverRetried ==
  \A r \in ReqIds :
    call[r].lastOutcome = "400"
      => pc[r] = "rejected" /\ call[r].result = ApiFailed("400")


\* ---------------------------------------------------------------- C3, C4, C5

\* every node of a forest / the selection nodes of a tree
RECURSIVE NodesOf(_)
NodesOf(nodes) ==
  IF nodes = <<>> THEN {}
  ELSE {Head(nodes)} \cup NodesOf(Head(nodes).children) \cup NodesOf(Tail(nodes))
SelectionsOf(t) == {n \in NodesOf(t) : n.type = "selection"}
ExternalIds(t) == {n.data.line_id : n \in {m \in SelectionsOf(t) : Given(m.data.line_id)}}

\* the ids a caller may look up: every external id of some tree, every node id,
\* and one that occurs nowhere
ProbeIds ==
  UNION {ExternalIds(t) \cup {n.id : n \in SelectionsOf(t)} : t \in BuilderTrees}
    \cup {"absent"}

\* the index holds the result of a completed build of `tree`
Built == builds > 0 /\ lastUpdated = builds /\ tree \in BuilderTrees

Lookup(id) == findSelection(cache, line_idIndex, [NoParams EXCEPT !.line_id = id])

\* C3: after buildFromTreeData on a tree of the builder, findSelection({line_id: id})
\* returns the record with that line_id for every selection of the tree that has
\* an external line_id, and null for every id that is no external id of the tree.
C3_FindByLineId ==
  Built =>
    /\ \A id \in ExternalIds(tree) : Lookup(id).line_id = id
    /\ \A id \in ProbeIds \ ExternalIds(tree) : Lookup(id) = NoRecord

\* C4: after a build, every stored record (in the four-level map, in the
\* per-event and per-market enumerations and in the flat line_id map) has a
\* non-empty line_id that is an external id of a selection of the tree; a
\* selection without data.line_id is not stored.
C4_NoRecordWithoutExternalId ==
  Built =>
    LET stored ==
          {flattenSelectionCache(cache)[i] : i \in 1..Len(flattenSelectionCache(cache))}
            \cup {line_idIndex[i][2] : i \in 1..Len(line_idIndex)}
            \cup UNION {{getEventSelections(cache, cache[i][1])[j] :
                           j \in 1..Len(getEventSelections(cache, cache[i][1]))} :
                        i \in 1..Len(cache)}
            \cup UNION {UNION {{getMarketSelections(cache, cache[i][1], cache[i][2][k][1])[j] :
                                 j \in 1..Len(getMarketSelections(cache, cache[i][1],
                                                                  cache[i][2][k][1]))} :
                               k \in 1..Len(cache[i][2])} :
                        i \in 1..Len(cache)}
    IN \A rec \in stored : Given(rec.line_id) /\ rec.line_id \in ExternalIds(tree)

\* what the five readers return on given maps
Observed(c, ix, updated) ==
  [find |-> [id \in ProbeIds |->
               findSelection(c, ix, [NoParams EXCEPT !.line_id = id])],
   event |-> [i \in 1..Len(c) |-> getEventSelections(c, c[i][1])],
   stats |-> getStats(c, ix, updated),
   flat |-> flattenSelectionCache(c)]

\* C5: a buildFromTreeData call that ends by an exception leaves the readers
\* with the complete index of the previous tree: whatever a reader returned
\* before the call, it returns after it.
C5_AtomicRebuild ==
  [][builds' # builds /\ threw' =>
       Observed(cache', line_idIndex', lastUpdated')
         = Observed(cache, line_idIndex, lastUpdated)]_vars

\* ------------------------------------------------------------------ claim C11

\* the upstream calls in flight: the fetch or the /auth/refresh of a makeRequest
\* call, and the /auth/refresh of the proactive refresh
UpstreamCalls ==
  Cardinality({r \in ReqIds : pc[r] \in {"fetching", "refreshing"}})
    + (IF proactive = "refreshing" THEN 1 ELSE 0)

\* C11: every upstream call in flight was issued from inside a task admitted by
\* the RequestQueue (so there are no more calls in flight than admitted tasks),
\* and at most maxConcurrency (3) upstream calls are in flight.
C11_AllUpstreamThroughQueue ==
  UpstreamCalls <= running /\ UpstreamCalls <= maxConcurrency

\* ------------------------------------------------------------------ claim C12

\* the maps a build of treeData gives on a cache that never held anything
FreshBuild(treeData) == buildFromTreeData(<<>>, <<>>, treeData)

\* C12: whatever builds and clears came before, a buildFromTreeData(tree) call
\* leaves the four-level map and the flat line_id map with the content that tree
\* alone determines (that of the same build on a new cache), and after a build of
\* the empty tree getStats() counts 0 events, markets, selections and line_ids.
C12_RebuildDependsOnTreeOnly ==
  [][builds' # builds =>
       /\ cache' = FreshBuild(tree').cache
       /\ line_idIndex' = FreshBuild(tree').index
       /\ tree' = <<>> =>
            LET stats == getStats(cache', line_idIndex', lastUpdated')
            IN /\ stats.events = 0 /\ stats.markets = 0
               /\ stats.selections = 0 /\ stats.line_idCount = 0]_vars

\* C12 witness: a later build, of the empty tree, has completed and left nothing
C12_Witness ==
  /\ builds >= 2 /\ lastUpdated = builds /\ tree = <<>>
  /\ cache = <<>> /\ line_idIndex = <<>>

\* ------------------------------------------------------------------ claim C13

\* the searches without line_id a caller can make: each filter absent, a value
\* that occurs in some index, or a value that occurs in none
SearchParams ==
  {[eventId |-> e, marketId |-> m, lineKey |-> k, line_id |-> Undef,
    internalId |-> i, name |-> n] :
     e \in {Undef, "1", "2", "9"}, m \in {Undef, "10", "20", "99"},
     k \in {Undef, "__default__", "1.5"},
     i \in {Undef, "L1h", "L2a", "20-Under"},
     n \in {Undef, "Home", "Away", "Nobody"}}

\* a record satisfies every filter that was given
Satisfies(rec, params) ==
  /\ Given(params.eventId) => rec.eventId = params.eventId
  /\ Given(params.marketId) => rec.marketId = params.marketId
  /\ Given(params.lineKey) => rec.lineKey = params.lineKey
  /\ Given(params.internalId) => rec.internalId = params.internalId
  /\ Given(params.name) => rec.name = params.name

\* the records of the index, in map iteration order, that satisfy the filters
Matching(params) ==
  LET sat(rec) == Satisfies(rec, params)
  IN SelectSeq(flattenSelectionCache(cache), sat)

\* C13: findSelection without line_id returns the first record, in map iteration
\* order, that satisfies every given filter, and null exactly when no record of
\* the index satisfies them all.
C13_FirstMatchOrNull ==
  \A params \in SearchParams :
    findSelection(cache, line_idIndex, params)
      = IF Matching(params) = <<>> THEN NoRecord ELSE Head(Matching(params))

\* C13 witness: a search by name passes over the first record of the index and
\* returns a later one, and a search by a name no record has returns null
C13_Witness ==
  /\ Len(flattenSelectionCache(cache)) >= 2
  /\ Head(flattenSelectionCache(cache)).name = "Home"
  /\ findSelection(cache, line_idIndex, [NoParams EXCEPT !.name = "Away"]).name = "Away"
  /\ findSelection(cache, line_idIndex, [NoParams EXCEPT !.name = "Nobody"]) = NoRecord

\* ------------------------------------------------------------------ claim C14

\* the records of selections that sit under a line node of a line value
LineRecords ==
  {rec \in {flattenSelectionCache(cache)[i] : i \in 1..Len(flattenSelectionCache(cache))} :
     rec.line.t \notin {"undef", "null"}}

\* C14: after a build of a builder tree, every record of a market with a line
\* sub-layer carries, and is stored under, the lineKey that is the string form of
\* its line value, and findSelection({eventId, marketId, lineKey}) with that key
\* returns a record of that line.
C14_LineKeyIsLineValue ==
  Built =>
    \A rec \in LineRecords :
      /\ rec.lineKey = StringOf(rec.line)
      /\ findSelection(cache, line_idIndex,
                       [NoParams EXCEPT !.eventId = rec.eventId,
                                        !.marketId = rec.marketId,
                                        !.lineKey = StringOf(rec.line)]).line = rec.line

\* ------------------------------------------------------------------ claim C15

\* the groups of both sources before merging, and the canonical line keys they
\* resolve to
SourceGroups ==
  normalizeSelections(rawMarket.selections)
    \o normalizeFromMarketLines(rawMarket.market_lines)
CanonicalKeys ==
  {normalizeLineKeyForMarket(rawMarket.name, SourceGroups[i].line) :
     i \in 1..Len(SourceGroups)}

ChildTypes == {marketNode.children[i].type : i \in 1..Len(marketNode.children)}
HasLineNodes == "category" \in ChildTypes

RECURSIVE CountSelections(_)
CountSelections(groups) ==
  IF groups = <<>> THEN 0
  ELSE Len(Head(groups).selections) + CountSelections(Tail(groups))

\* every selection of the merged groups is a selection node under the market
AllAttachedDirectly ==
  /\ ChildTypes \subseteq {"selection"}
  /\ Len(marketNode.children) = CountSelections(normalizedGroups)

\* some selection of the merged groups has a line_id, a name or a display_name
SomeLabelled ==
  \E i \in 1..Len(normalizedGroups) :
    \E j \in 1..Len(normalizedGroups[i].selections) :
      Labelled(normalizedGroups[i].selections[j])

\* C15 (as stated): a market node has line nodes as children if and only if its
\* groups resolve to more than one distinct canonical line key (the key of a
\* non-line market being the default bucket whatever the line), and in every
\* other case all its selections are attached directly under the market node.
C15_LineLayerIffSeveralKeys ==
  rawMarket # NoMarket =>
    /\ HasLineNodes <=> Cardinality(CanonicalKeys) > 1
    /\ Cardinality(CanonicalKeys) <= 1 => AllAttachedDirectly

\* C15 (amended): a market node has line nodes as children if and only if its
\* groups resolve to more than one distinct canonical line key and some
\* selection of them has a line_id, a name or a display_name; with more than one
\* key no selection is attached directly under the market node, and in every
\* other case all its selections are.
C15_LineLayerIffSeveralKeysAndLabelled ==
  rawMarket # NoMarket =>
    /\ HasLineNodes <=> (Cardinality(CanonicalKeys) > 1 /\ SomeLabelled)
    /\ Cardinality(CanonicalKeys) > 1 => ChildTypes \subseteq {"category"}
    /\ Cardinality(CanonicalKeys) <= 1 => AllAttachedDirectly

\* C15 witness: a line market of two lines got its two line nodes
C15_Witness ==
  /\ IsLineMarket(rawMarket.name)
  /\ Cardinality(CanonicalKeys) = 2
  /\ Len(marketNode.children) = 2
  /\ ChildTypes = {"category"}

\* ------------------------------------------------------------------ claim C16

\* the line a dictionary key stands for: the number it parses to, else the key
ParsedKey(i) ==
  LET k == rawMarket.selections.dict[i][1]
  IN IF NumberOfString(k) = "NaN" THEN StrLine(k) ELSE NumLine(NumberOfString(k))

\* the selections payload is a dictionary of two or more distinct line values,
\* each mapped to a non-empty array, and there is no market_lines payload
DictionaryOfLines ==
  LET dict == rawMarket.selections.dict
  IN /\ rawMarket.selections.shape = "dict"
     /\ rawMarket.market_lines.shape = "none"
     /\ Len(dict) >= 2
     /\ \A i, j \in 1..Len(dict) : i # j => ParsedKey(i) # ParsedKey(j)
     /\ \A i \in 1..Len(dict) : dict[i][2] # <<>>

\* one group per key, with the key's parsed line and the key's records (each
\* identity key of the array once), and one line node per key under the market
OneGroupAndLineNodePerKey ==
  LET dict == rawMarket.selections.dict
  IN /\ Len(normalizedGroups) = Len(dict)
     /\ \A i \in 1..Len(dict) :
          /\ normalizedGroups[i].line = ParsedKey(i)
          /\ \A j \in 1..Len(normalizedGroups[i].selections) :
               \E k \in 1..Len(dict[i][2]) :
                 normalizedGroups[i].selections[j] = dict[i][2][k]
          /\ \A k \in 1..Len(dict[i][2]) :
               \E j \in 1..Len(normalizedGroups[i].selections) :
                 selKey(normalizedGroups[i].selections[j]) = selKey(dict[i][2][k])
     /\ Len(marketNode.children) = Len(dict)
     /\ \A i \in 1..Len(dict) :
          /\ marketNode.children[i].type = "category"
          /\ marketNode.children[i].name = "Line " \o StringOf(ParsedKey(i))

EveryLineLabelled ==
  \A i \in 1..Len(rawMarket.selections.dict) :
    \E k \in 1..Len(rawMarket.selections.dict[i][2]) :
      Labelled(rawMarket.selections.dict[i][2][k])

MergedGroups == mergeGroupsForMarket(rawMarket.name, SourceGroups)

\* the records of a group that no earlier record shares the identity key with
FirstOfEachKey(selections) ==
  LET RECURSIVE firsts(_)
      firsts(j) ==
        IF j > Len(selections) THEN <<>>
        ELSE (IF \E k \in 1..(j - 1) : selKey(selections[k]) = selKey(selections[j])
              THEN <<>> ELSE <<selections[j]>>) \o firsts(j + 1)
  IN firsts(1)

\* C17: within each merged group, of the records that share one identity key
\* exactly one is kept and it is the first in group order (the payload of every
\* later duplicate is dropped), and records of distinct keys keep their order.
C17_FirstDuplicateKept ==
  /\ Len(normalizedGroups) = Len(MergedGroups)
  /\ \A i \in 1..Len(normalizedGroups) :
       normalizedGroups[i].selections = FirstOfEachKey(MergedGroups[i].selections)

\* ------------------------------------------------------------ claims C18, C19

\* the catalog without its failing nodes: the tournaments whose getEvents
\* failed and the markets whose processing throws
WithoutFailing(c) ==
  LET fetched(t) == t.eventsFetch = "ok"
      wellFormed(m) == m.bad = "no"
      ts == SelectSeq(c, fetched)
  IN [i \in 1..Len(ts) |->
        [ts[i] EXCEPT !.events =
           [e \in 1..Len(@) |-> [@[e] EXCEPT !.markets = SelectSeq(@, wellFormed)]]]]

\* the number of failing nodes of a catalog
FailureCount(c) ==
  Cardinality({i \in 1..Len(c) : c[i].eventsFetch # "ok"})
    + Cardinality({x \in (1..Len(c)) \X (1..NumEvents) \X (1..2) :
                     /\ x[2] <= Len(c[x[1]].events)
                     /\ x[3] <= Len(c[x[1]].events[x[2]].markets)
                     /\ c[x[1]].events[x[2]].markets[x[3]].bad # "no"})

\* C18: when fetching or processing one node fails, buildHierarchy returns the
\* tree it returns when the failing node is absent: every sibling is there with
\* the same content, and the failure does not abort or empty the rest.
C18_SiblingsSurviveFailure ==
  (catalog # <<>> /\ FailureCount(catalog) = 1)
    => hierarchy = buildHierarchy(WithoutFailing(catalog))

\* C19: in the tree of buildHierarchy no tournament node and no event node is
\* without children and no category node is without markets, and a well-formed
\* market without selections of an event that is in the tree is under it.
C19_NoEmptyNodeButMarkets ==
  /\ \A n \in NodesOf(hierarchy) :
       n.type \in {"tournament", "event", "category"} => n.children # <<>>
  /\ \A i \in 1..Len(catalog) :
       \A e \in 1..Len(catalog[i].events) :
         \A m \in 1..Len(catalog[i].events[e].markets) :
           LET event == catalog[i].events[e]
               market == event.markets[m]
           IN (/\ catalog[i].eventsFetch = "ok"
               /\ ~GroupingThrows(event)
               /\ market.bad = "no" /\ market.groups = <<>>)
                => \E n \in NodesOf(hierarchy) :
                     n.type = "market" /\ n.id = ToString(market.id) /\ n.children = <<>>

\* ------------------------------------------------------------------ C20
\* C20: for every integer American odds value a with |a| >= 100, of either
\* sign and with a = 100 and a = -100 included, converting a to decimal odds and
\* back gives a value that differs from a by at most 1.
C20_RoundTripWithinOne ==
  (converted = "ok" /\ Abs(american) >= 100) => Abs(roundTrip - american) <= 1

\* ------------------------------------------------------------------ C21
ClampTicks == {clampLadder.ticks[i] : i \in 1 .. Len(clampLadder.ticks)}
ClampCalled == clampResult # NoPrice
HasTicks == clampLadder.given /\ Len(clampLadder.ticks) > 0
IsNearest(t) ==
  /\ t \in ClampTicks
  /\ \A u \in ClampTicks : Abs(clampPrice - t) <= Abs(clampPrice - u)
SmallestOfNearest(t) ==
  \A u \in ClampTicks :
    Abs(clampPrice - u) = Abs(clampPrice - t) => t <= u
FirstOfNearest(t) ==
  \E i \in 1 .. Len(clampLadder.ticks) :
    /\ clampLadder.ticks[i] = t
    /\ \A j \in 1 .. i - 1 :
         Abs(clampPrice - clampLadder.ticks[j]) > Abs(clampPrice - t)
SortedAscending(ticks) ==
  \A i \in 1 .. Len(ticks) - 1 : ticks[i] <= ticks[i + 1]

\* C21: clampToLadder(x, ladder) with a non-empty ladder returns a tick of the
\* ladder nearest to x, and of two equally near ticks the smaller one; with an
\* empty or missing ladder it returns x unchanged.
C21_NearestAndSmallerOnTie ==
  ClampCalled =>
    IF HasTicks
      THEN IsNearest(clampResult) /\ SmallestOfNearest(clampResult)
      ELSE clampResult = clampPrice

\* C21 (amended): the returned tick is nearest to x and, of the equally near
\* ticks, the one that comes first in the ladder; that is the smaller one when
\* the ladder is sorted ascending.  An empty or missing ladder returns x.
C21_NearestAndFirstOnTie ==
  ClampCalled =>
    IF HasTicks
      THEN /\ IsNearest(clampResult)
           /\ FirstOfNearest(clampResult)
           /\ SortedAscending(clampLadder.ticks) => SmallestOfNearest(clampResult)
      ELSE clampResult = clampPrice

\* A sorted ladder with two ticks equally near to x was snapped to the smaller.
C21_Witness ==
  /\ ClampCalled /\ HasTicks /\ SortedAscending(clampLadder.ticks)
  /\ \E u \in ClampTicks :
       u > clampResult /\ Abs(clampPrice - u) = Abs(clampPrice - clampResult)

\* ------------------------------------------------------------------ C22
WagerBuilt == wagerResult.kind # "none"
\* line_id a non-empty string, odds finite and > 1.0, 0.01 <= stake <= 100,000,000.
ValidWagerInput(params) ==
  /\ params.line_id.t = "string" /\ params.line_id.chars # <<>>
  /\ params.odds.kind = "number" /\ params.odds.num > params.odds.den
  /\ params.stake.kind = "number"
  /\ ~BelowCent(params.stake) /\ ~Exceeds(params.stake, maxStake)

\* C22: buildWagerPayload returns a payload only when line_id is a non-empty
\* string, odds is a finite number greater than 1.0 and the stake lies between
\* 0.01 and 100,000,000; on every other input (NaN or infinite odds, NaN stake,
\* empty line_id, ...) it throws and returns no payload.
C22_PayloadOnlyForValidInput ==
  WagerBuilt =>
    /\ wagerResult.kind = "payload" => ValidWagerInput(wagerParams)
    /\ ~ValidWagerInput(wagerParams) => wagerResult.kind = "threw"

\* ------------------------------------------------------------------ C23
\* The distance between the decimal number x and the tick (hundredths), in
\* units of 1 / (100 * x.den).
TickDistance(x, tick) == Abs(x.num * 100 - tick * x.den)
IsTick(x, tick) == x.kind = "number" /\ TickDistance(x, tick) = 0

\* C23: whenever a non-empty ladder of allowed decimal prices is loaded, the
\* odds of every payload buildWagerPayload returns is greater than 1.0 and is
\* an element of the ladder, namely a tick nearest to the requested odds.
C23_OddsSnappedToLadder ==
  (wagerResult.kind = "payload" /\ oddsLadder # <<>>) =>
    /\ wagerResult.payload.odds.kind = "number"
    /\ wagerResult.payload.odds.num > wagerResult.payload.odds.den
    /\ \E i \in 1 .. Len(oddsLadder) :
         /\ IsTick(wagerResult.payload.odds, oddsLadder[i])
         /\ \A j \in 1 .. Len(oddsLadder) :
              TickDistance(wagerParams.odds, oddsLadder[i])
                <= TickDistance(wagerParams.odds, oddsLadder[j])

\* ------------------------------------------------------------------ C24
\* C24: the external_id of every payload buildWagerPayload returns, generated
\* by generateExternalId (with any prefix) or supplied by the caller, has at
\* most 100 characters, all of them in [A-Za-z0-9_-].
C24_ExternalIdWellFormed ==
  wagerResult.kind = "payload" =>
    /\ Len(wagerResult.payload.external_id) <= maxExternalIdLength
    /\ \A i \in 1 .. Len(wagerResult.payload.external_id) :
         wagerResult.payload.external_id[i] \in AllowedChars

NoPageTwice ==
  \A i, j \in 1 .. Len(wagers) : wagers[i] = wagers[j] => i = j
\* Everything of the engine but the history variables.
engineState ==
  <<enabled, mounted, hookState, intervalRef, retryCountRef, inflight, retryTimers>>

FailureHandled(fetch, n) ==
  /\ pollError' = "message"
  /\ wagers' = wagers /\ nextCursor' = nextCursor
  /\ intervalRef' = intervalRef
  /\ retryTimers' =
       IF n < maxRetries
         THEN Append(retryTimers,
                     [cursor |-> fetch.cursor, append |-> fetch.append,
                      origin |-> fetch.origin, delay |-> 2 ^ n])
         ELSE retryTimers

C28_ClearResetsAndKeepsTimer ==
  [][lastOp'.op = "clear" =>
       /\ wagers' = <<>> /\ pollError' = "null" /\ lastSyncedAt' = "null"
       /\ nextCursor' = 0 /\ retryCountRef' = 0
       /\ intervalRef' = intervalRef]_vars

\* An enabled engine that held pages, a cursor and a failure count has just
\* been cleared and is still polling.
C28_Witness ==
  /\ lastOp.op = "clear" /\ enabled /\ intervalRef
  /\ started >= 2 /\ failuresInARow >= 1
  /\ wagers = <<>> /\ pollError = "null" /\ lastSyncedAt = "null"
  /\ nextCursor = 0 /\ retryCountRef = 0

\* ------------------------------------------------------------------ C29
\* The engine is stopped: disabled, or its owner torn down.
Stopped == ~enabled \/ ~mounted

\* C29: after the engine is disabled or its owner is torn down, the engine
\* initiates no further upstream wager fetch: the interval timer is cleared and
\* no timer scheduled earlier (periodic tick or backoff retry) starts a fetch.
C29_NoFetchAfterStop ==
  [][/\ Stopped' => ~intervalRef'
     /\ (Stopped /\ Stopped') => started' = started]_vars


\* C30: once a token refresh has failed and until the next successful
\* authenticate(), no fetch of an endpoint is issued with the access token the
\* failed refresh left behind, and every makeRequest call that runs in that
\* time is rejected as not authenticated instead of being fetched.
SessionInvalid == staleToken # NoToken
FetchIssued(r) == call'[r].fetches > call[r].fetches
C30_NoRequestAfterFailedRefresh ==
  [][(SessionInvalid /\ SessionInvalid') =>
       \A r \in ReqIds :
         /\ FetchIssued(r) => call'[r].reqToken # staleToken
         /\ (pc[r] \in {"new", "queued"} /\ pc'[r] \notin {"new", "queued"})
              => call'[r].result = Err("Not authenticated", "none")]_vars

\* the selection cache is built and cleared, then one row is enriched against it
NextEnrich ==
  \/ displayData = NotEnriched /\ \E treeData \in TreeInputs : BuildFromTreeData(treeData)
  \/ displayData = NotEnriched /\ Clear
  \/ displayData = NotEnriched /\ \E w \in WagerRows : EnrichWager(w)

SpecEnrich == Init /\ [][NextEnrich]_vars

\* C31: whenever a row whose line_id is no key of the Selection Index is
\* enriched, whatever its odds and stake are, the call returns (it does not
\* throw) and the labels are the placeholders 'Unknown Market',
\* 'Line ID: <line_id>' and 'Unknown Selection'.
IndexMiss(w) == ~MapHas(line_idIndex, w.line_id)
Placeholders(w, d) ==
  /\ ~d.threw
  /\ d.wagerType = "Unknown Market"
  /\ d.wagerMarket = "Line ID: " \o w.line_id
  /\ d.selectionName = "Unknown Selection"
C31_MissGivesPlaceholders ==
  [][(<<wager, displayData>>' # <<wager, displayData>> /\ IndexMiss(wager'))
       => Placeholders(wager', displayData')]_vars

\* the edge function alone, over every answer of the venue
NextProxy == \E req \in Requests, resp \in Upstreams : Serve(req, resp)

SpecProxy == Init /\ [][NextProxy]_vars

\* C32: when the venue answered the proxied call with a non-2xx status, a
\* JSON content type and a body, the handler's Response has the venue's status
\* and the venue's body text.
ErrorEnvelope ==
  /\ proxyRequest.method = "POST" /\ proxyRequest.parses
  /\ ~upstream.threw
  /\ ~Ok(upstream.status)
  /\ IncludesJson(upstream.contentType)
  /\ upstream.hasBody
C32_ErrorForwardedVerbatim ==
  ErrorEnvelope =>
    /\ proxyResponse.status = upstream.status
    /\ proxyResponse.kind = "text"
    /\ proxyResponse.text = upstream.text

\* one getMyWagers call, over every sequence of answers of the venue
NextPages ==
  \/ GetMyWagers
  \/ \E response \in Pages : PageResolve(response)
  \/ PageReject

SpecPages == Init /\ [][NextPages]_vars

\* the wagers of the responses received so far, in the order of the requests
RECURSIVE WagersOf(_)
WagersOf(responses) ==
  IF responses = <<>> THEN <<>>
  ELSE PageWagers(Head(responses)) \o WagersOf(Tail(responses))

\* the next_cursor a response carries (undefined without `data`)
CursorOf(response) == IF response.hasData THEN response.next_cursor ELSE Undef

\* The behaviour of getMyWagers, given which responses count as carrying a
\* next_cursor: requests are made one at a time, the first without a cursor
\* and each later one with the next_cursor of the response before it; every
\* response before the last carried one; the call has returned exactly when
\* the last response carried none, and then with the pages concatenated in
\* request order; a rejected call returned no list; a call still waiting has
\* seen only responses that carried one.
Paginates(Carries(_)) ==
  LET n == Len(pageResponses)
  IN /\ pagesPc # "idle" =>
          /\ pageRequests[1] = Undef
          /\ \A i \in 2 .. Len(pageRequests) :
               pageRequests[i] = CursorOf(pageResponses[i - 1])
          /\ Len(pageRequests) = n + (IF pagesPc = "awaiting" THEN 1 ELSE
                                       IF pagesPc = "rejected" THEN 1 ELSE 0)
          /\ \A i \in 1 .. n - 1 : Carries(pageResponses[i])
     /\ pagesPc = "awaiting" => \A i \in 1 .. n : Carries(pageResponses[i])
     /\ pagesPc = "returned" <=> (n > 0 /\ ~Carries(pageResponses[n]))
     /\ pagesPc = "returned" => pagesResult = PagesResolved(WagersOf(pageResponses))
     /\ pagesPc = "rejected" => pagesResult = PagesRejected
     /\ pagesPc \in {"idle", "awaiting"} => pagesResult = PagesPending

\* C33 as stated: a response is "without next_cursor" when the field is absent.
CarriesCursor(response) == CursorOf(response) # Undef
C33_StopsWhenCursorAbsent == Paginates(CarriesCursor)

\* C33 amended: the loop also stops at a response whose next_cursor is the
\* empty string, so a response counts as carrying a next_cursor when the
\* field is a non-empty string.
CarriesNonEmptyCursor(response) == CursorOf(response) \notin {Undef, ""}
C33_StopsWhenCursorAbsentOrEmpty == Paginates(CarriesNonEmptyCursor)

\* a call that fetched three pages and returned them, the last one ending
\* the loop with an empty next_cursor
C33_Witness ==
  /\ pagesPc = "returned"
  /\ Len(pageResponses) = MaxPages
  /\ CursorOf(pageResponses[MaxPages]) = ""
  /\ Len(pagesResult.value) > 2

\* C34: whenever a call issues an attempt (first or retry) while the
\* remaining-quota counter is below the low-water mark, the call comes out of
\* a pause of at least one second: the sleep of checkRateLimit or a backoff
\* delay (2^attempt seconds or more).
Paused(r) == pc[r] \in {"ratewait", "backoff"}
C34_PauseBeforeAttemptWhenQuotaLow ==
  [][\A r \in ReqIds :
       (FetchIssued(r) /\ rateLimitRemaining' < lowWaterMark) => Paused(r)]_vars

\* C35: every attempt a call issues carries, in requestBody.accessToken, the
\* access token the session holds at the moment the attempt is issued.
C35_AttemptCarriesCurrentToken ==
  [][\A r \in ReqIds : FetchIssued(r) => call'[r].reqToken = accessToken']_vars

\* makeRequest calls that wait for a slot: MaxCalls calls, one login, a venue
\* that answers every fetch with 200 or 401 and fails every refresh (the
\* longest way through makeRequest: refresh, catch, backoff, retry).  Every
\* fetch and every timer completes: the steps that complete them are weakly
\* fair.
SettleOutcomes == {"200", "401"}
NextSettle ==
  \/ accessToken = NoToken /\ Authenticate(NoHeader, FALSE)
  \/ \E r \in ReqIds : MakeRequest(r)
  \/ \E r \in ReqIds, o \in SettleOutcomes : FetchResponse(r, o, NoHeader)
  \/ \E r \in ReqIds : BackoffDone(r)
  \/ \E r \in ReqIds : RefreshDone(r, FALSE, FALSE)

Completes(r) ==
  \/ \E o \in SettleOutcomes : FetchResponse(r, o, NoHeader)
  \/ BackoffDone(r)
  \/ RefreshDone(r, FALSE, FALSE)

SpecSettle ==
  Init /\ [][NextSettle]_vars /\ \A r \in ReqIds : WF_vars(Completes(r))


\* C36: with every fetch and timer completing, every makeRequest call that was
\* made settles (so every call waiting in the queue is admitted and every
\* admitted call ends after its attempts); calls only wait while all slots are
\* taken, and the running count equals the number of admitted, unsettled calls,
\* which is 0 once nothing waits and every call has settled.
Settled(r) == pc[r] \in {"resolved", "rejected"}
Admitted == {r \in ReqIds : pc[r] \notin {"new", "queued", "resolved", "rejected"}}
RecordAt(eventId, marketId, lineKey, id) ==
  IF ~MapHas(cache, eventId) THEN NoRecord
  ELSE IF ~MapHas(MapGet(cache, eventId), marketId) THEN NoRecord
  ELSE IF ~MapHas(MapGet(MapGet(cache, eventId), marketId), lineKey) THEN NoRecord
  ELSE IF ~MapHas(MapGet(MapGet(MapGet(cache, eventId), marketId), lineKey), id)
       THEN NoRecord
  ELSE MapGet(MapGet(MapGet(MapGet(cache, eventId), marketId), lineKey), id)

C40_AtMostOneProactiveTimer == timers <= 1

====
